---- MODULE Spec2Model ----
(***************************************************************************)
(* The peer-swarm engine of the BitTorrent client: the coordinator         *)
(* (PeerManager::run), its piece manager (DownloadQueue, PieceState, the   *)
(* data file and the persisted bitfield), the metadata engine used for     *)
(* magnet links, and the peer sessions (Peer::run) that feed it.           *)
(*                                                                         *)
(* Bytes are abstracted: a block of data is "good" (the bytes of the       *)
(* torrent), "bad" (anything else) or "zero" (the zero-initialised         *)
(* buffer); SHA-1 of a buffer matches iff every block of it is "good".     *)
(* Lengths and offsets are the real numbers.  Pieces are numbered from 0   *)
(* as in the source; Vec positions are 1-based sequences, so block k of a  *)
(* piece is blocks[k + 1].                                                 *)
(***************************************************************************)
EXTENDS Integers, Sequences, FiniteSets, TLC

\* ---- program constants -------------------------------------------------
BLOCK_MAX == 16384
BLOCK_QUEUE_SIZE_MAX == 20
MAX_PIECES_IN_PARALLEL == 5
METADATA_BLOCK_SIZE == 16384
\* mpsc::channel(64) of the coordinator's events, mpsc::channel(16) of a
\* session's control messages
RX_CAPACITY == 64
INBOX_CAPACITY == 16

\* ---- bounds of the model -----------------------------------------------
\* number of remote peers that may connect
MaxPeers == 2
\* the torrent: NumPieces pieces of BlocksPerPiece full blocks, the last
\* piece TailBytes long
NumPieces == 2
BlocksPerPiece == 2
TailBytes == 100
\* size of the bencoded info dictionary a peer advertises
MetadataSize == 100
\* slots of the coordinator's event channel and of a session's control
\* channel that the specifications of arbitrary schedules fill (at most the
\* channels' capacities: the sender waits earlier than the code's would)
RxCap == 3
InboxCap == 3
\* cap on the length of the download queue explored
MaxQueueLen == 3
\* messages a remote peer sends on its own initiative (flag changes)
MaxRemoteMsgs == 1
\* blocks a remote peer corrupts
MaxCorrupt == 1

PeerIds == 1 .. MaxPeers
Pieces == 0 .. (NumPieces - 1)

\* ---- the metainfo ------------------------------------------------------
piece_length == BlocksPerPiece * BLOCK_MAX
length == piece_length * (NumPieces - 1) + TailBytes

div_ceil(a, b) == (a + b - 1) \div b

\* the fields of Metainfo that the accounting reads: get_length(),
\* piece_length and pieces.0.len()
Metainfo(len, plen, n) == [length |-> len, piece_length |-> plen, pieces |-> n]
metainfo == Metainfo(length, piece_length, NumPieces)

get_piece_size(torrent_info, piece_i) ==
    IF /\ piece_i = torrent_info.pieces - 1
       /\ torrent_info.length % torrent_info.piece_length # 0
    THEN torrent_info.length % torrent_info.piece_length
    ELSE torrent_info.piece_length

\* every block a full one
get_block_len_full(n_blocks, piece_size, block_i) == BLOCK_MAX

get_block_len(n_blocks, piece_size, block_i) ==
    IF block_i = n_blocks - 1 /\ piece_size % BLOCK_MAX # 0
    THEN piece_size % BLOCK_MAX
    ELSE BLOCK_MAX

PieceState_new(torrent_info, piece_i) ==
    LET piece_size == get_piece_size(torrent_info, piece_i)
        n_blocks == div_ceil(piece_size, BLOCK_MAX)
    IN  [ piece_i |-> piece_i,
          blocks  |-> [k \in 1 .. n_blocks |-> "None"],
          buf     |-> [k \in 1 .. n_blocks |-> "zero"],
          size    |-> piece_size ]

\* ---- sequences ---------------------------------------------------------
RECURSIVE SeqSum(_)
SeqSum(s) == IF s = <<>> THEN 0 ELSE Head(s) + SeqSum(Tail(s))

Count(s, P(_)) == Cardinality({i \in DOMAIN s : P(s[i])})

\* position(): the first index whose element satisfies P, 0 if none
Position(s, P(_)) ==
    IF \E i \in DOMAIN s : P(s[i])
    THEN CHOOSE i \in DOMAIN s : P(s[i]) /\ \A j \in 1 .. (i - 1) : ~P(s[j])
    ELSE 0

\* Vec::swap_remove(i): the last element takes the place of element i
swap_remove(s, i) ==
    [j \in 1 .. (Len(s) - 1) |-> IF j = i THEN s[Len(s)] ELSE s[j]]


Orders(S) ==
    {o \in [1 .. Cardinality(S) -> S] : \A i, j \in DOMAIN o : i # j => o[i] # o[j]}

\* ---- state -------------------------------------------------------------
VARIABLES
    \* the coordinator (PeerManager)
    torrent_state,   \* "WaitingForMetadata" | "Downloading" | "Seeding"
    manager_result,  \* "running", or how PeerManager::run ended
    peers,           \* keys of the registry HashMap<peer_id, PeerConn>
    has,             \* has[p]: the bitfield recorded for peer p (Vec<bool>)
    rx,              \* the coordinator's event channel (ReqMsgFromPeer)
    \* the piece manager
    have,            \* PieceManager.have, piece -> BOOLEAN
    db_bitfield,     \* the bitfield of the persisted entry
    file,            \* the data file: set of [off, piece] chunks written
    o_append_ignores_offset, \* pwrite on an O_APPEND file appends (Linux)
    storage,         \* what fails when a piece is committed: nothing, the
                     \* write to the data file, or the update of the entry
    download_queue,  \* DownloadQueue: sequence of PieceState
    \* the metadata engine (MetadataPieceManager)
    meta_queue,      \* Vec<BlockState>
    meta_bytes,      \* the buffer, one tag per block
    \* the peer sessions
    sess,            \* "absent" | "none" | "running" | "closed"
    am_interested,
    peer_choking,
    peer_interested,
    to_send,         \* ReqQueue.to_send
    have_sent,       \* ReqQueue.have_sent (usize; a negative value is the wrapped one)
    inbox,           \* the session's control channel (ResMessage)
    wire,            \* requests written to the remote peer and not answered yet
    ext_known,       \* the ut_metadata handler is registered
    remote_has,      \* the pieces the remote peer has and announces (Vec<bool>)
    corrupt_left,    \* corrupted blocks the remote peer will still send
    remote_stage,    \* 0: handshaken, 1: sent its extension handshake, 2: sent its bitfield
    remote_msgs,     \* unsolicited messages the remote peer has sent
    told,            \* the last WeHave a session handled: the bitfield, the
                     \* flag before it and what was written to the remote peer
    twin,            \* a second connection whose handshake carried the same
                     \* peer_id: whether it is alive, and whether the registry
                     \* holds its PeerConn under that peer_id
    \* the channels' capacities and the longest download queue explored
    limits,
    \* history
    started_as,      \* the torrent_state the coordinator was constructed with
    abandoned,       \* peers whose session ended with requests unanswered
    finished_file_seen, \* the session has taken FinishedFile off its channel
    \* the piece selector (piece_selector.rs), driven on its own
    selector,        \* PieceSelector
    sel_out,         \* the last call on the selector and what it returned
    \* the metainfo whose block accounting is computed
    probe,
    \* the framer (messages/mod.rs) with its read buffer, driven on its own
    codec,
    \* the ut_metadata exchange driven on its own: the message a session
    \* handles, what the handler returns, the last call on the engine
    ext

coord_vars == <<torrent_state, manager_result, peers, has, rx>>
piece_vars == <<have, db_bitfield, file, o_append_ignores_offset, storage,
               download_queue>>
meta_vars == <<meta_queue, meta_bytes>>
sess_vars == <<sess, am_interested, peer_choking, peer_interested, to_send,
               have_sent, inbox, wire, ext_known, remote_has, corrupt_left,
               remote_stage, remote_msgs, told, twin>>
hist_vars == <<started_as, finished_file_seen, abandoned, limits>>
lib_vars == <<selector, sel_out, probe, codec, ext>>
vars == <<coord_vars, piece_vars, meta_vars, sess_vars, hist_vars, lib_vars>>

\* ---- messages ----------------------------------------------------------
\* no session has handled a WeHave
NotTold == [peer |-> 0, bf |-> <<>>, was |-> FALSE, written |-> <<>>]

\* no second connection with this peer_id
NoTwin == [stage |-> "none", registered |-> FALSE]

\* ReqMsgFromPeer { peer_id, msg }
ReqMsg(p, type, index, begin, len, data, bf) ==
    [peer_id |-> p, type |-> type, index |-> index, begin |-> begin,
     length |-> len, data |-> data, bf |-> bf]
Ev(p, type) == ReqMsg(p, type, 0, 0, 0, "-", <<>>)
\* NewConnection(PeerConn) with the sender of the second connection
TwinConnection(p) == ReqMsg(p, "NewConnection", 0, 0, 0, "twin", <<>>)

\* ResMessage
ResMsg(type, index, reqs, bf) ==
    [type |-> type, index |-> index, reqs |-> reqs, bf |-> bf]
Res(type) == ResMsg(type, 0, <<>>, <<>>)

\* a bitfield as the Vec<bool> a message carries
AsVec(bitfield) == [k \in 1 .. NumPieces |-> bitfield[k - 1]]

\* RequestPiecePayload::new(index, begin, length); kind "Extended" is a
\* ut_metadata request that shares ReqQueue.to_send
Request(index, begin, len) ==
    [kind |-> "Request", index |-> index, begin |-> begin, length |-> len]
MetaRequest(piece_index) ==
    [kind |-> "Extended", index |-> piece_index, begin |-> 0, length |-> 0]

NoBitfield == [i \in Pieces |-> FALSE]

\* ---- the wire codec (messages/mod.rs, messages/payloads.rs) -------------
MAX == 8 * 1024 * 1024

\* u32::to_be_bytes and u32::from_be_bytes, on the values below 2^31
u32_to_be_bytes(n) ==
    <<(n \div 16777216) % 256, (n \div 65536) % 256, (n \div 256) % 256, n % 256>>
u32_from_be_bytes(b) ==
    b[1] * 16777216 + b[2] * 65536 + b[3] * 256 + b[4]

\* entry i of a chunk sets the bit 1 << i
RECURSIVE fold_chunk_lsb_first(_, _, _)
fold_chunk_lsb_first(byte, i, acc) ==
    IF i >= Len(byte) THEN acc
    ELSE fold_chunk_lsb_first(byte, i + 1, acc + (IF byte[i + 1] THEN 2 ^ i ELSE 0))

\* the fold of BitfieldPayload::to_be_bytes over one chunk of up to 8 entries:
\* entry i of the chunk sets the bit 128 >> i
RECURSIVE fold_chunk(_, _, _)
fold_chunk(byte, i, acc) ==
    IF i >= Len(byte) THEN acc
    ELSE fold_chunk(byte, i + 1, acc + (IF byte[i + 1] THEN 2 ^ (7 - i) ELSE 0))

\* pieces_available.chunks(8)
chunks8(v) ==
    [k \in 1 .. ((Len(v) + 7) \div 8) |->
        SubSeq(v, 8 * (k - 1) + 1, IF 8 * k < Len(v) THEN 8 * k ELSE Len(v))]

\* BitfieldPayload::to_be_bytes
BitfieldPayload_to_be_bytes(pieces_available) ==
    [k \in DOMAIN chunks8(pieces_available) |->
        fold_chunk(chunks8(pieces_available)[k], 0, 0)]

\* BitfieldPayload::from_be_bytes: 1u8.rotate_right(i + 1) is the bit 128 >> i
BitfieldPayload_from_be_bytes(payload) ==
    [n \in 1 .. (Len(payload) * 8) |->
        (payload[((n - 1) \div 8) + 1] \div (2 ^ (7 - ((n - 1) % 8)))) % 2 = 1]

\* MessageAll: the variant and its payload
NoPayload == [none |-> TRUE]
MessageAll(kind, payload) == [kind |-> kind, payload |-> payload]
HavePayload(piece_index) == [piece_index |-> piece_index]
BitfieldPayload(pieces_available) == [pieces_available |-> pieces_available]
RequestPiecePayload(index, begin, len) ==
    [index |-> index, begin |-> begin, length |-> len]
ResponsePiecePayload(index, begin, block) ==
    [index |-> index, begin |-> begin, block |-> block]

\* MessageAll::to_be_bytes
to_be_bytes(m) ==
    CASE m.kind = "Have" -> u32_to_be_bytes(m.payload.piece_index)
      [] m.kind = "Bitfield" -> BitfieldPayload_to_be_bytes(m.payload.pieces_available)
      [] m.kind \in {"Request", "Cancel"} ->
            u32_to_be_bytes(m.payload.index) \o u32_to_be_bytes(m.payload.begin)
                \o u32_to_be_bytes(m.payload.length)
      [] m.kind = "Piece" ->
            u32_to_be_bytes(m.payload.index) \o u32_to_be_bytes(m.payload.begin)
                \o m.payload.block
      [] OTHER -> <<>>

\* enum MessageType (repr(u8)); KeepAlive has none
MessageTypeOf(kind) ==
    CASE kind = "Choke" -> 0
      [] kind = "Unchoke" -> 1
      [] kind = "Interested" -> 2
      [] kind = "NotInterested" -> 3
      [] kind = "Have" -> 4
      [] kind = "Bitfield" -> 5
      [] kind = "Request" -> 6
      [] kind = "Piece" -> 7
      [] kind = "Cancel" -> 8
LAST_MESSAGE_TYPE == 8

\* struct Message
Message(len, payload) == [length |-> len, payload |-> payload]

\* Message::new
Message_new(payload) ==
    Message(Len(to_be_bytes(payload)) + 4, payload)

\* Encoder::encode(item, dst): the Result and the buffer afterwards
encode(item, dst) ==
    IF item.length > MAX THEN [ok |-> FALSE, dst |-> dst]
    ELSE IF item.payload.kind = "KeepAlive" THEN [ok |-> TRUE, dst |-> dst]
    ELSE [ok |-> TRUE,
          dst |-> dst \o u32_to_be_bytes(item.length)
                      \o <<MessageTypeOf(item.payload.kind)>>
                      \o to_be_bytes(item.payload)]

\* what decode returns: Ok(None), Ok(Some(item)), Err, or a panic; and the
\* buffer afterwards
NoMessage == Message(0, MessageAll("none", NoPayload))
Decoded(kind, item, src) == [kind |-> kind, item |-> item, src |-> src]

\* the payload of a frame of a known message type, "panic" where
\* from_be_bytes panics (a slice shorter than the fixed fields)
payload_from_be_bytes(msg_type, data) ==
    CASE msg_type = 0 -> MessageAll("Choke", NoPayload)
      [] msg_type = 1 -> MessageAll("Unchoke", NoPayload)
      [] msg_type = 2 -> MessageAll("Interested", NoPayload)
      [] msg_type = 3 -> MessageAll("NotInterested", NoPayload)
      [] msg_type = 4 ->
            IF Len(data) < 4 THEN MessageAll("panic", NoPayload)
            ELSE MessageAll("Have", HavePayload(u32_from_be_bytes(SubSeq(data, 1, 4))))
      [] msg_type = 5 ->
            MessageAll("Bitfield", BitfieldPayload(BitfieldPayload_from_be_bytes(data)))
      [] msg_type \in {6, 8} ->
            IF Len(data) < 12 THEN MessageAll("panic", NoPayload)
            ELSE MessageAll(IF msg_type = 6 THEN "Request" ELSE "Cancel",
                     RequestPiecePayload(u32_from_be_bytes(SubSeq(data, 1, 4)),
                                         u32_from_be_bytes(SubSeq(data, 5, 8)),
                                         u32_from_be_bytes(SubSeq(data, 9, 12))))
      [] msg_type = 7 ->
            IF Len(data) < 8 THEN MessageAll("panic", NoPayload)
            ELSE MessageAll("Piece",
                     ResponsePiecePayload(u32_from_be_bytes(SubSeq(data, 1, 4)),
                                          u32_from_be_bytes(SubSeq(data, 5, 8)),
                                          SubSeq(data, 9, Len(data))))

\* Decoder::decode(src)
decode(src) ==
    IF Len(src) < 4 THEN Decoded("None", NoMessage, src)
    ELSE LET data_length == u32_from_be_bytes(SubSeq(src, 1, 4)) IN
    IF data_length = 0
    THEN Decoded("Some", Message(0, MessageAll("KeepAlive", NoPayload)),
                 SubSeq(src, 5, Len(src)))
    ELSE IF Len(src) < 5 THEN Decoded("None", NoMessage, src)
    ELSE IF data_length > MAX THEN Decoded("Err", NoMessage, src)
    ELSE IF Len(src) < 4 + data_length THEN Decoded("None", NoMessage, src)
    ELSE LET data == IF data_length > 1 THEN SubSeq(src, 6, 4 + data_length) ELSE <<>>
             msg_type == src[5]
             advanced == SubSeq(src, 4 + data_length + 1, Len(src))
         IN  IF msg_type > LAST_MESSAGE_TYPE
             THEN Decoded("None", NoMessage, advanced)
             ELSE LET payload == payload_from_be_bytes(msg_type, data)
                  IN  IF payload.kind = "panic"
                      THEN Decoded("Panic", NoMessage, advanced)
                      ELSE Decoded("Some", Message(data_length, payload), advanced)

\* the framer with nothing encoded or decoded
NoCodec ==
    [stage |-> "idle", item |-> NoMessage, src |-> <<>>, written |-> 0,
     ret |-> Decoded("None", NoMessage, <<>>),
     \* the stream of a remote peer: the bytes written and not read yet, the
     \* frames written, the messages they stand for, the messages delivered
     socket |-> <<>>, is_readable |-> FALSE, frames |-> 0, fed |-> <<>>,
     delivered |-> <<>>]

\* ---- the ut_metadata messages (metadata_requester.rs) --------------------
\* number of decimal digits of n
RECURSIVE Digits(_)
Digits(n) == IF n < 10 THEN 1 ELSE 1 + Digits(n \div 10)

\* a ut_metadata message as it arrives: the bencoded dictionary, followed by
\* raw_len bytes whose content is tagged
NoSize == [some |-> FALSE, value |-> 0]
SomeSize(n) == [some |-> TRUE, value |-> n]
MetadataMsg(piece_index, total_size, raw_len, content) ==
    [piece_index |-> piece_index, total_size |-> total_size, raw_len |-> raw_len,
     content |-> content]

\* length of d8:msg_typei1e5:piecei<piece>e10:total_sizei<total_size>ee, and
\* of the dictionary without total_size
header_len(msg) ==
    IF msg.total_size.some
    THEN 39 + Digits(msg.piece_index) + Digits(msg.total_size.value)
    ELSE 24 + Digits(msg.piece_index)

\* ExtensionAction: Nothing, or SendPeerManager(ReceivedMetadataPiece) with
\* the slice data[offset..] of the message
Nothing == [kind |-> "Nothing", piece_index |-> 0, offset |-> 0, len |-> 0, data |-> "zero"]
ReceivedMetadataPiece(piece_index, offset, len, data) ==
    [kind |-> "ReceivedMetadataPiece", piece_index |-> piece_index, offset |-> offset,
     len |-> len, data |-> data]

\* data.len().checked_sub(total_size)
offset_of_total_size(msg, data_len) == data_len - msg.total_size.value

\* MetadataRequester::handle_message; the slice is the block sent iff it
\* begins where the dictionary ends
handle_message(msg) ==
    IF ~msg.total_size.some THEN Nothing
    ELSE LET data_len == header_len(msg) + msg.raw_len
             offset == offset_of_total_size(msg, data_len)
         IN  IF offset < 0 THEN Nothing
             ELSE ReceivedMetadataPiece(msg.piece_index, offset, data_len - offset,
                      IF offset = header_len(msg) THEN msg.content ELSE "bad")

\* no message handled, no call made on the engine
NoExt ==
    [info_size |-> 0, stage |-> "idle", msg |-> MetadataMsg(0, NoSize, 0, "zero"),
     action |-> Nothing, op |-> "new", ret |-> 0,
     before |-> [queue |-> <<>>, bytes |-> [len |-> 0, blocks |-> <<>>]],
     outstanding |-> <<>>, set_len_calls |-> 0]

\* ---- the piece selector (piece_selector.rs) ----------------------------
\* bounds of the selector's runs: pieces, peers and calls on the selector
SelPieces == 4
SelPeers == 3
MaxSelCalls == 7
\* the counts a select is called with: 1 .. MaxSelCount and the caller's
\* MAX_PIECES_IN_PARALLEL
MaxSelCount == 1

SelPieceIds == 0 .. (SelPieces - 1)
SelPeerIds == 1 .. SelPeers

\* Reverse<(u32, u32)> in a BinaryHeap: the least (rarity, piece_index) pair
\* is popped first.  The heap is kept as the ascending sequence of its entries.
HeapLess(a, b) == a[1] < b[1] \/ (a[1] = b[1] /\ a[2] < b[2])

\* a queue that keeps the order of arrival
heap_push_unordered(h, e) == Append(h, e)

heap_push(h, e) ==
    LET k == Cardinality({j \in DOMAIN h : HeapLess(h[j], e) \/ h[j] = e})
    IN  SubSeq(h, 1, k) \o <<e>> \o SubSeq(h, k + 1, Len(h))

PieceSelector_new(own) ==
    [ piece_rarity     |-> [i \in DOMAIN own |-> 0],
      priority_queue   |-> <<>>,
      have             |-> own,
      peer_bitfields   |-> <<>>,
      pieces_in_flight |-> [i \in DOMAIN own |-> FALSE] ]

\* HashMap::insert returns the old value, which is put back
add_peer(s, id) ==
    IF id \in DOMAIN s.peer_bitfields THEN s
    ELSE [s EXCEPT !.peer_bitfields =
              [q \in DOMAIN s.peer_bitfields \cup {id} |->
                  IF q = id THEN <<>> ELSE s.peer_bitfields[q]]]

\* update_prio_queue from piece i on: the zip stops at the shortest of
\* piece_rarity, bitfield and have
RECURSIVE update_prio_from(_, _, _, _)
update_prio_from(s, bitfield, increase, i) ==
    IF i >= Len(bitfield) \/ i \notin DOMAIN s.piece_rarity THEN s
    ELSE IF bitfield[i + 1] /\ ~s.have[i]
         THEN LET count == IF increase THEN s.piece_rarity[i] + 1
                           ELSE IF s.piece_rarity[i] = 0 THEN 0
                           ELSE s.piece_rarity[i] - 1
              IN  update_prio_from(
                      [s EXCEPT !.piece_rarity[i] = count,
                                !.priority_queue = heap_push(@, <<count, i>>)],
                      bitfield, increase, i + 1)
         ELSE update_prio_from(s, bitfield, increase, i + 1)

update_prio_queue(s, bitfield, increase) == update_prio_from(s, bitfield, increase, 0)

remove_peer(s, id) ==
    IF id \in DOMAIN s.peer_bitfields
    THEN update_prio_queue(
             [s EXCEPT !.peer_bitfields =
                 [q \in DOMAIN s.peer_bitfields \ {id} |-> s.peer_bitfields[q]]],
             s.peer_bitfields[id], FALSE)
    ELSE s

add_bitfield(s, id, bitfield) ==
    IF id \in DOMAIN s.peer_bitfields
    THEN update_prio_queue([s EXCEPT !.peer_bitfields[id] = bitfield], bitfield, TRUE)
    ELSE s

update_have(s, id, have_index) ==
    IF /\ id \in DOMAIN s.peer_bitfields
       /\ have_index < Len(s.peer_bitfields[id])
       /\ have_index \in DOMAIN s.piece_rarity
    THEN LET rarity == s.piece_rarity[have_index] + 1
         IN  [s EXCEPT !.peer_bitfields[id][have_index + 1] = TRUE,
                       !.piece_rarity[have_index] = rarity,
                       !.priority_queue =
                           IF s.have[have_index] THEN @
                           ELSE heap_push(@, <<rarity, have_index>>)]
    ELSE s

\* the loop of select_pieces_for_peer: queue.len() <= queue.capacity() holds
\* of every Vec, so the loop ends only when the heap is empty; bitfield[i]
\* panics past the end of the peer's bitfield
\* a loop that does not look at pieces_in_flight
RECURSIVE select_loop_any(_, _, _)
select_loop_any(s, bitfield, queue) ==
    IF s.priority_queue = <<>> THEN [sel |-> s, queue |-> queue, panic |-> FALSE]
    ELSE LET count == Head(s.priority_queue)[1]
             i == Head(s.priority_queue)[2]
             popped == [s EXCEPT !.priority_queue = Tail(@)]
         IN  IF s.piece_rarity[i] # count
             THEN select_loop_any(popped, bitfield, queue)
             ELSE IF i >= Len(bitfield)
             THEN [sel |-> popped, queue |-> queue, panic |-> TRUE]
             ELSE IF bitfield[i + 1]
             THEN select_loop_any([popped EXCEPT !.pieces_in_flight[i] = TRUE],
                                  bitfield, Append(queue, i))
             ELSE select_loop_any(popped, bitfield, queue)

RECURSIVE select_loop(_, _, _)
select_loop(s, bitfield, queue) ==
    IF s.priority_queue = <<>> THEN [sel |-> s, queue |-> queue, panic |-> FALSE]
    ELSE LET count == Head(s.priority_queue)[1]
             i == Head(s.priority_queue)[2]
             popped == [s EXCEPT !.priority_queue = Tail(@)]
         IN  IF s.piece_rarity[i] # count
             THEN select_loop(popped, bitfield, queue)
             ELSE IF i >= Len(bitfield)
             THEN [sel |-> popped, queue |-> queue, panic |-> TRUE]
             ELSE IF bitfield[i + 1] /\ ~s.pieces_in_flight[i]
             THEN select_loop([popped EXCEPT !.pieces_in_flight[i] = TRUE],
                              bitfield, Append(queue, i))
             ELSE select_loop(popped, bitfield, queue)

\* Option<Vec<u32>>: None, Some(queue), or the panic of the indexing
RetNone == [kind |-> "None", queue |-> <<>>]
RetSome(queue) == [kind |-> "Some", queue |-> queue]
RetPanic == [kind |-> "panic", queue |-> <<>>]

select_pieces_for_peer(s, id, count) ==
    IF id \notin DOMAIN s.peer_bitfields THEN [sel |-> s, ret |-> RetNone]
    ELSE LET r == select_loop(s, s.peer_bitfields[id], <<>>)
         IN  [sel |-> r.sel,
              ret |-> IF r.panic THEN RetPanic
                      ELSE IF r.queue = <<>> THEN RetNone ELSE RetSome(r.queue)]

NoCall == [op |-> "new", peer |-> 0, count |-> 0, ret |-> RetNone, calls |-> 0, yielded |-> {},
           repeated |-> FALSE]
NoProbe ==
    [info |-> Metainfo(0, 0, 0), stage |-> "idle",
     state |-> [piece_i |-> 0, blocks |-> <<>>, buf |-> <<>>, size |-> 0],
     requests |-> <<>>]

\* the selector of the torrent, on which nothing is called, and no
\* accounting computed
LibIdle ==
    /\ selector = PieceSelector_new(NoBitfield)
    /\ sel_out = NoCall
    /\ probe = NoProbe
    /\ codec = NoCodec
    /\ ext = NoExt

\* ---- construction ------------------------------------------------------
\* PeerManager::init_from_torrent (Downloading, a fresh persisted entry) and
\* PeerManager::init_from_magnet (WaitingForMetadata, no persisted entry);
\* swarm is the set of remote peers that may connect, platforms the
\* behaviours of the file system, bitfields what a remote peer may have,
\* corrupt the number of corrupted blocks a remote peer sends, lim the
\* capacities of the channels and the bound of the download queue, faults
\* what the storage does when a piece is committed
StorageFaults == {"ok", "write_fails", "db_fails"}

InitStorage(states, swarm, platforms, bitfields, corrupts, lim, faults) ==
    /\ storage \in faults
    /\ torrent_state \in states
    /\ started_as = torrent_state
    /\ abandoned = {}
    /\ limits = lim
    /\ manager_result = "running"
    /\ peers = {}
    /\ has = [p \in PeerIds |-> <<>>]
    /\ rx = <<>>
    /\ have = NoBitfield
    /\ db_bitfield = NoBitfield
    /\ file = {}
    /\ o_append_ignores_offset \in platforms
    /\ download_queue = <<>>
    /\ meta_queue = <<>>
    /\ meta_bytes = [len |-> 0, blocks |-> <<>>]
    /\ sess = [p \in PeerIds |-> IF p \in swarm THEN "none" ELSE "absent"]
    /\ am_interested = [p \in PeerIds |-> FALSE]
    /\ peer_choking = [p \in PeerIds |-> TRUE]
    /\ peer_interested = [p \in PeerIds |-> FALSE]
    /\ to_send = [p \in PeerIds |-> <<>>]
    /\ have_sent = [p \in PeerIds |-> 0]
    /\ inbox = [p \in PeerIds |-> <<>>]
    /\ wire = [p \in PeerIds |-> <<>>]
    /\ ext_known = [p \in PeerIds |-> FALSE]
    /\ remote_has \in [PeerIds -> bitfields]
    /\ \A p \in PeerIds : p \notin swarm => remote_has[p] = CHOOSE bf \in bitfields : TRUE
    /\ corrupt_left \in [PeerIds -> corrupts \cup {0}]
    /\ \A p \in PeerIds : (p \in swarm /\ corrupt_left[p] \in corrupts) \/
                          (p \notin swarm /\ corrupt_left[p] = 0)
    /\ remote_stage = [p \in PeerIds |-> 0]
    /\ remote_msgs = [p \in PeerIds |-> 0]
    /\ twin = [p \in PeerIds |-> NoTwin]
    /\ told = NotTold
    /\ finished_file_seen = [p \in PeerIds |-> FALSE]

\* the data file and the persisted entry never fail
InitCoordinator(states, swarm, platforms, bitfields, corrupts, lim) ==
    InitStorage(states, swarm, platforms, bitfields, corrupts, lim, {"ok"})

\* the coordinator does not construct a PieceSelector
InitWith(states, swarm, platforms, bitfields, corrupts, lim) ==
    /\ InitCoordinator(states, swarm, platforms, bitfields, corrupts, lim)
    /\ LibIdle

Seeder == [k \in 1 .. NumPieces |-> TRUE]
\* what a remote peer has: everything, or the first piece only
Bitfields == {Seeder, [k \in 1 .. NumPieces |-> k = 1]}

\* one remote peer is in the swarm
Limits(rx_cap, inbox_cap, queue_len) ==
    [rx |-> rx_cap, inbox |-> inbox_cap, queue |-> queue_len]

Init == InitWith({"WaitingForMetadata", "Downloading"}, {1}, BOOLEAN, Bitfields,
                 0 .. MaxCorrupt, Limits(RxCap, InboxCap, MaxQueueLen))


\* ---- the download queue (req_preparer.rs) ------------------------------
is_none(b) == b = "None"
is_finished_block(b) == b = "Finished"

NeedsBlocks(state) == \E k \in DOMAIN state.blocks : is_none(state.blocks[k])

\* the closure of get_queue_for_peer's position(): peer_has[state.piece_i]
\* is a Vec index and panics when the Vec is shorter
IndexPanics(peer_has, state) == state.piece_i >= Len(peer_has)
QueueMatch(peer_has, state) ==
    /\ ~IndexPanics(peer_has, state)
    /\ peer_has[state.piece_i + 1]
    /\ NeedsBlocks(state)

\* position() stops at the first match: it panics iff an element it reaches
\* before any match is out of the range of peer_has
get_queue_panics(q, peer_has) ==
    \E j \in DOMAIN q :
        /\ IndexPanics(peer_has, q[j])
        /\ \A i \in 1 .. (j - 1) : ~QueueMatch(peer_has, q[i])

\* add_piece_to_queue: the pieces the random choice is made among
Candidates(i_have, peer_has) ==
    {i \in Pieces : ~i_have[i] /\ i < Len(peer_has) /\ peer_has[i + 1]}

QueueIsFull(q, i_have) ==
    /\ Len(q) = MAX_PIECES_IN_PARALLEL
    /\ Cardinality({i \in Pieces : i_have[i]}) > 1

\* get_queue_for_peer: the queue after it and the position of the piece it
\* yields (0: None).  pick is the piece rand chooses when one is added.
get_queue_for_peer(q, i_have, peer_has, pick) ==
    LET piece_i == Position(q, LAMBDA st : QueueMatch(peer_has, st))
    IN  IF piece_i # 0 THEN [queue |-> q, at |-> piece_i]
        ELSE IF QueueIsFull(q, i_have) \/ Candidates(i_have, peer_has) = {}
        THEN [queue |-> q, at |-> 0]
        ELSE [queue |-> Append(q, PieceState_new(metainfo, pick)), at |-> Len(q) + 1]

\* whether get_queue_for_peer consults rand
NeedsPick(q, i_have, peer_has) ==
    /\ Position(q, LAMBDA st : QueueMatch(peer_has, st)) = 0
    /\ ~QueueIsFull(q, i_have)
    /\ Candidates(i_have, peer_has) # {}

\* the first n blocks of a piece that are None
TakeNone(blocks, n) ==
    {k \in DOMAIN blocks :
        /\ is_none(blocks[k])
        /\ Cardinality({j \in 1 .. (k - 1) : is_none(blocks[j])}) < n}

RECURSIVE RequestsOf(_, _, _)
RequestsOf(state, taken, k) ==
    IF k > Len(state.blocks) THEN <<>>
    ELSE (IF k \in taken
          THEN <<Request(state.piece_i, (k - 1) * BLOCK_MAX,
                         get_block_len(Len(state.blocks), state.size, k - 1))>>
          ELSE <<>>) \o RequestsOf(state, taken, k + 1)

\* PieceManager::prepare_next_blocks
prepare_next_blocks(q, n, i_have, peer_has, pick) ==
    LET got == get_queue_for_peer(q, i_have, peer_has, pick)
    IN  IF got.at = 0 THEN [queue |-> got.queue, requests |-> <<>>]
        ELSE LET piece == got.queue[got.at]
                 taken == TakeNone(piece.blocks, n)
                 marked == [piece EXCEPT !.blocks =
                              [k \in DOMAIN piece.blocks |->
                                 IF k \in taken THEN "InProcess" ELSE piece.blocks[k]]]
             IN  [queue |-> [got.queue EXCEPT ![got.at] = marked],
                  requests |-> RequestsOf(piece, taken, 1)]

\* ---- committing a piece (file_manager.rs) ------------------------------
\* PieceState::update_state panics on a block that does not fit the buffer
update_state_panics(state, begin, len) ==
    \/ begin + len > state.size
    \/ begin \div BLOCK_MAX >= Len(state.blocks)

update_state(state, begin, data) ==
    LET block_i == begin \div BLOCK_MAX
    IN  [state EXCEPT !.buf[block_i + 1] = data,
                      !.blocks[block_i + 1] = "Finished"]

AllFinished(state) == \A k \in DOMAIN state.blocks : is_finished_block(state.blocks[k])

\* SHA-1 of the buffer equals metainfo.pieces[piece_i]
check_hash(state) == \A k \in DOMAIN state.buf : state.buf[k] = "good"

\* DownloadQueue::update_piece_state: the queue after the block, and the
\* PieceState it removed (done) if the block completed it
update_piece_state(q, index, begin, data) ==
    LET queue_i == Position(q, LAMBDA st : st.piece_i = index)
    IN  IF queue_i = 0 THEN [queue |-> q, found |-> FALSE, done |-> FALSE, piece |-> 0]
        ELSE LET st == update_state(q[queue_i], begin, data)
             IN  IF AllFinished(st)
                 THEN [queue |-> swap_remove(q, queue_i), found |-> TRUE,
                       done |-> TRUE, piece |-> st]
                 ELSE [queue |-> [q EXCEPT ![queue_i] = st], found |-> TRUE,
                       done |-> FALSE, piece |-> st]

FileLen(f) ==
    IF f = {} THEN 0
    ELSE LET c == CHOOSE c \in f : \A d \in f : d.off + d.size <= c.off + c.size
         IN  c.off + c.size

\* write_piece_to_file: write_all_at(buf, piece_i * piece_length) on a file
\* opened with append(true)
write_piece_to_file(f, state) ==
    LET offset == state.piece_i * piece_length
        at == IF o_append_ignores_offset THEN FileLen(f) ELSE offset
    IN  f \cup {[off |-> at, piece |-> state.piece_i, size |-> state.size,
                  buf |-> state.buf]}

\* PieceManager::write_block returns Some(piece_i) whenever the block
\* completed its piece; handle_piece returns Ok(()) on a hash mismatch
write_block_returns_some(upd) == upd.done

\* handle_piece commits (file, persisted bitfield, have) iff the hashes match
handle_piece_unchecked(upd) == upd.done
handle_piece_commits(upd) == upd.done /\ check_hash(upd.piece)

\* the struct is updated before the entry
handle_piece_struct_first(upd) ==
    IF ~handle_piece_commits(upd)
    THEN [have |-> have, db |-> db_bitfield, file |-> file, result |-> "running"]
    ELSE IF storage = "write_fails"
    THEN [have |-> have, db |-> db_bitfield, file |-> file, result |-> "WritingToFile"]
    ELSE IF storage = "db_fails"
    THEN [have |-> [have EXCEPT ![upd.piece.piece_i] = TRUE], db |-> db_bitfield,
          file |-> write_piece_to_file(file, upd.piece), result |-> "DB"]
    ELSE [have |-> [have EXCEPT ![upd.piece.piece_i] = TRUE],
          db |-> [have EXCEPT ![upd.piece.piece_i] = TRUE],
          file |-> write_piece_to_file(file, upd.piece), result |-> "running"]

\* handle_piece: nothing on a hash mismatch; else write_piece_to_file?, then
\* db_conn.update_bitfields(new_bitfield)?, then have[piece_i] = true
handle_piece(upd) ==
    IF ~handle_piece_commits(upd)
    THEN [have |-> have, db |-> db_bitfield, file |-> file, result |-> "running"]
    ELSE IF storage = "write_fails"
    THEN [have |-> have, db |-> db_bitfield, file |-> file, result |-> "WritingToFile"]
    ELSE IF storage = "db_fails"
    THEN [have |-> have, db |-> db_bitfield,
          file |-> write_piece_to_file(file, upd.piece), result |-> "DB"]
    ELSE [have |-> [have EXCEPT ![upd.piece.piece_i] = TRUE],
          db |-> [have EXCEPT ![upd.piece.piece_i] = TRUE],
          file |-> write_piece_to_file(file, upd.piece), result |-> "running"]

is_finished_any(bitfield) == \E i \in Pieces : bitfield[i]
is_finished(bitfield) == \A i \in Pieces : bitfield[i]


\* ---- the metadata engine (metadata_piece_manager.rs) -------------------
\* every call initialises
set_len_always(mq, mb, len) ==
    [queue |-> [k \in 1 .. div_ceil(len, METADATA_BLOCK_SIZE) |-> "None"],
     bytes |-> [len |-> len,
                blocks |-> [k \in 1 .. div_ceil(len, METADATA_BLOCK_SIZE) |-> "zero"]]]

\* MetadataPieceManager::set_len
set_len(mq, mb, len) ==
    IF mq # <<>> THEN [queue |-> mq, bytes |-> mb]
    ELSE LET n_blocks == div_ceil(len, METADATA_BLOCK_SIZE)
         IN  [queue |-> [k \in 1 .. n_blocks |-> "None"],
              bytes |-> [len |-> len, blocks |-> [k \in 1 .. n_blocks |-> "zero"]]]

\* the first block that is not Finished
get_block_req_data_unfinished(mq) == Position(mq, LAMBDA b : ~is_finished_block(b))

\* MetadataPieceManager::get_block_req_data: the first block that is None
get_block_req_data(mq) == Position(mq, LAMBDA b : is_none(b))

\* MetadataPieceManager::add_block indexes the buffer and the queue
add_block_panics(mq, mb, index, len) ==
    \/ index * METADATA_BLOCK_SIZE + len > mb.len
    \/ index >= Len(mq)

\* the copy covers the blocks from index on that begin before begin + len
add_block(mq, mb, index, data, len) ==
    [queue |-> [mq EXCEPT ![index + 1] = "Finished"],
     bytes |-> [mb EXCEPT !.blocks =
                  [j \in DOMAIN @ |->
                      IF /\ j >= index + 1
                         /\ (j - 1) * METADATA_BLOCK_SIZE < index * METADATA_BLOCK_SIZE + len
                      THEN data ELSE @[j]]]]

\* the queue is left as it is when the hash differs
check_finished_no_reset(mq, mb, info_size) ==
    [finished |-> /\ \A k \in DOMAIN mq : is_finished_block(mq[k])
                  /\ mb.len = info_size
                  /\ \A k \in DOMAIN mb.blocks : mb.blocks[k] = "good",
     queue |-> mq]

\* MetadataPieceManager::check_finished: the result and the queue after it
\* (SHA-1 of the buffer is the info-hash iff the buffer holds the info
\* dictionary: its length and every block of it)
check_finished(mq, mb, info_size) ==
    IF \A k \in DOMAIN mq : is_finished_block(mq[k])
    THEN IF mb.len = info_size /\ \A k \in DOMAIN mb.blocks : mb.blocks[k] = "good"
         THEN [finished |-> TRUE, queue |-> mq]
         ELSE [finished |-> FALSE, queue |-> [k \in DOMAIN mq |-> "None"]]
    ELSE [finished |-> FALSE, queue |-> mq]

\* ---- the coordinator: PeerManager::run ---------------------------------
RECURSIVE DeliverAll(_, _)
DeliverAll(ib, sends) ==
    IF sends = <<>> THEN ib
    ELSE DeliverAll([ib EXCEPT ![Head(sends)[1]] = Append(@, Head(sends)[2])],
                    Tail(sends))

\* the PeerConn the registry holds for p after the event at the head of the
\* channel: insert replaces the entry with the PeerConn of a NewConnection
Registered(p) ==
    IF rx # <<>> /\ Head(rx).type = "NewConnection" /\ Head(rx).peer_id = p
    THEN Head(rx).data = "twin"
    ELSE twin[p].registered

\* the receiving half of the control channel of the registered PeerConn is alive
ReceiverAlive(p) ==
    IF Registered(p) THEN twin[p].stage = "running" ELSE sess[p] = "running"

\* PeerConn::send fails iff the receiver was dropped; send_peer and
\* broadcast_peers return that error with `?` and run returns it
SendFails(send) == ~ReceiverAlive(send[1])

\* broadcast_peers: one send per registered peer, in the map's order
Broadcast(order, msg) == [i \in DOMAIN order |-> <<order[i], msg>>]

\* the end of one iteration of run's loop: the new state of the coordinator,
\* the sends it makes in order, and err ("running", or the error or panic
\* that ended run before any send)
CoordEffect(ts, pr, hs, q, hv, db, f, mq, mb, sends, err) ==
    \E k \in {Position(sends, LAMBDA s : SendFails(s))} :
    \E ok \in {IF k = 0 THEN sends ELSE SubSeq(sends, 1, k - 1)} :
    \E result \in {IF err # "running" THEN err
                    ELSE IF k # 0 THEN "SendError" ELSE "running"} :
    \* what goes to the channel of a second connection is not read
    \E mine \in {SelectSeq(ok, LAMBDA s : ~Registered(s[1]))} :
        /\ \A p \in PeerIds :
              Len(inbox[p]) + Count(mine, LAMBDA s : s[1] = p) <= limits.inbox
        /\ inbox' = DeliverAll(inbox, mine)
        /\ twin' = [p \in PeerIds |->
                      [twin[p] EXCEPT !.registered =
                          result = "running" /\ p \in pr /\ Registered(p)]]
        /\ torrent_state' = ts
        /\ has' = hs
        /\ download_queue' = q
        /\ have' = hv
        /\ db_bitfield' = db
        /\ file' = f
        /\ meta_queue' = mq
        /\ meta_bytes' = mb
        /\ manager_result' = result
        \* run(mut self) owns the manager: when it returns, the registry and
        \* the receiver of the event channel are dropped
        /\ rx' = IF result = "running" THEN Tail(rx) ELSE <<>>
        /\ peers' = IF result = "running" THEN pr ELSE {}
        /\ UNCHANGED <<o_append_ignores_offset, storage, sess, am_interested, peer_choking,
                       peer_interested, to_send, have_sent, wire, ext_known,
                       remote_has, corrupt_left, remote_stage, remote_msgs, told,
                       hist_vars, lib_vars>>

\* an arm that changes nothing but the registry
CoordKeep(pr, sends, err) ==
    CoordEffect(torrent_state, pr, has, download_queue, have, db_bitfield, file,
                meta_queue, meta_bytes, sends, err)

CoordReady(type) ==
    /\ manager_result = "running"
    /\ rx # <<>>
    /\ Head(rx).type = type

\* send_peer: PeerNotFound when the peer is not in the registry
SendPeer(p, msg) ==
    IF p \in peers THEN CoordKeep(peers, <<<<p, msg>>>>, "running")
    ELSE CoordKeep(peers, <<>>, "PeerNotFound")

HandleNewConnection ==
    /\ CoordReady("NewConnection")
    /\ LET p == Head(rx).peer_id
           \* the identifier of a second connection has an empty has
           hs == IF Head(rx).data = "twin" THEN [has EXCEPT ![p] = <<>>] ELSE has
       IN  CoordEffect(torrent_state, peers \cup {p}, hs, download_queue, have,
                       db_bitfield, file, meta_queue, meta_bytes,
                       IF torrent_state = "Downloading"
                       THEN <<<<p, Res("StartDownload")>>>> ELSE <<>>,
                       "running")

HandleWhatDoWeHave ==
    /\ CoordReady("WhatDoWeHave")
    /\ IF torrent_state = "Downloading"
       THEN SendPeer(Head(rx).peer_id, ResMsg("WeHave", 0, <<>>, AsVec(have)))
       ELSE CoordKeep(peers, <<>>, "running")

HandleNeedBlockQueue ==
    /\ CoordReady("NeedBlockQueue")
    /\ LET p == Head(rx).peer_id
       IN  IF p \notin peers THEN CoordKeep(peers, <<>>, "PeerNotFound")
           ELSE IF torrent_state # "Downloading" THEN CoordKeep(peers, <<>>, "running")
           ELSE IF get_queue_panics(download_queue, has[p])
           THEN CoordKeep(peers, <<>>, "Panic")
           ELSE \E pick \in IF NeedsPick(download_queue, have, has[p])
                            THEN Candidates(have, has[p]) ELSE {0} :
                  \E r \in {prepare_next_blocks(download_queue, BLOCK_QUEUE_SIZE_MAX,
                                                  have, has[p], pick)} :
                      /\ Len(r.queue) <= limits.queue
                      /\ CoordEffect(torrent_state, peers, has, r.queue, have,
                                     db_bitfield, file, meta_queue, meta_bytes,
                                     <<<<p, ResMsg("NewBlockQueue", 0, r.requests, <<>>)>>>>,
                                     "running")

HandleGotBlock ==
    /\ CoordReady("GotBlock")
    /\ LET m == Head(rx)
           queue_i == Position(download_queue, LAMBDA st : st.piece_i = m.index)
       IN  IF torrent_state # "Downloading" THEN CoordKeep(peers, <<>>, "running")
           ELSE IF queue_i # 0 /\ update_state_panics(download_queue[queue_i], m.begin, m.length)
           THEN CoordKeep(peers, <<>>, "Panic")
           ELSE \E upd \in {update_piece_state(download_queue, m.index, m.begin, m.data)} :
                \E done \in {handle_piece(upd)} :
                LET some == write_block_returns_some(upd) /\ done.result = "running"
                    fin == some /\ is_finished(done.have)
                IN  \E order \in Orders(peers) :
                      CoordEffect(IF fin THEN "Seeding" ELSE torrent_state,
                                  peers, has, upd.queue, done.have, done.db, done.file,
                                  meta_queue, meta_bytes,
                                  IF some
                                  THEN (IF fin THEN Broadcast(order, Res("FinishedFile"))
                                        ELSE <<>>)
                                       \o Broadcast(order, ResMsg("FinishedPiece", m.index, <<>>, <<>>))
                                  ELSE <<>>,
                                  done.result)


\* the data file is opened for appending only, never for reading, so
\* get_block's read_exact_at fails and get_block returns None
file_readable == FALSE

get_block(index, begin, len) ==
    IF file_readable /\ \E c \in file : c.off = index * piece_length /\ c.piece = index
    THEN "Some" ELSE "None"

HandleNeedBlock ==
    /\ CoordReady("NeedBlock")
    /\ LET m == Head(rx)
       IN  IF torrent_state # "Downloading" THEN CoordKeep(peers, <<>>, "running")
           ELSE IF m.index \notin Pieces \/ ~have[m.index]
           THEN CoordKeep(peers, <<>>, "Panic")
           ELSE SendPeer(m.peer_id,
                         [ResMsg("Block", m.index, <<>>, <<>>) EXCEPT
                              !.type = IF get_block(m.index, m.begin, m.length) = "Some"
                                       THEN "Block" ELSE "BlockNone"])

\* `if let TorrentState::WaitingForMetadata { .. } = &mut self.torrent_state`
\* around the three Extension arms
AnyStateArm(ts) == TRUE
WaitingForMetadataArm(ts) == ts = "WaitingForMetadata"

\* Extension(NeedMetadataPiece)
HandleNeedMetadataPiece ==
    /\ CoordReady("NeedMetadataPiece")
    /\ LET p == Head(rx).peer_id
           k == get_block_req_data(meta_queue)
       IN  IF ~WaitingForMetadataArm(torrent_state) \/ k = 0
           THEN CoordKeep(peers, <<>>, "running")
           ELSE IF p \notin peers
           THEN CoordEffect(torrent_state, peers, has, download_queue, have, db_bitfield,
                            file, [meta_queue EXCEPT ![k] = "InProcess"], meta_bytes,
                            <<>>, "PeerNotFound")
           ELSE CoordEffect(torrent_state, peers, has, download_queue, have, db_bitfield,
                            file, [meta_queue EXCEPT ![k] = "InProcess"], meta_bytes,
                            <<<<p, ResMsg("ExtensionData", k - 1, <<>>, <<>>)>>>>, "running")

\* Extension(ReceivedMetadataPiece { piece_index, data })
HandleReceivedMetadataPiece ==
    /\ CoordReady("ReceivedMetadataPiece")
    /\ LET m == Head(rx)
       IN  IF ~WaitingForMetadataArm(torrent_state) THEN CoordKeep(peers, <<>>, "running")
           ELSE IF add_block_panics(meta_queue, meta_bytes, m.index, m.length)
           THEN CoordKeep(peers, <<>>, "Panic")
           ELSE LET added == add_block(meta_queue, meta_bytes, m.index, m.data, m.length)
                    chk == check_finished(added.queue, added.bytes, MetadataSize)
                IN  \E order \in Orders(peers) :
                      CoordEffect(IF chk.finished THEN "Downloading" ELSE torrent_state,
                                  peers, has, download_queue, have, db_bitfield, file,
                                  chk.queue, added.bytes,
                                  IF chk.finished
                                  THEN Broadcast(order, Res("StartDownload")) ELSE <<>>,
                                  "running")

\* Extension(GotMetadataLength(length))
HandleGotMetadataLength ==
    /\ CoordReady("GotMetadataLength")
    /\ IF ~WaitingForMetadataArm(torrent_state) THEN CoordKeep(peers, <<>>, "running")
       ELSE LET r == set_len(meta_queue, meta_bytes, Head(rx).length)
            IN  CoordEffect(torrent_state, peers, has, download_queue, have, db_bitfield,
                            file, r.queue, r.bytes, <<>>, "running")

\* PeerBitfield(bf): the peer's bitfield is replaced
HandlePeerBitfield ==
    /\ CoordReady("PeerBitfield")
    /\ LET m == Head(rx)
       IN  CoordEffect(torrent_state, peers,
                       IF m.peer_id \in peers THEN [has EXCEPT ![m.peer_id] = m.bf] ELSE has,
                       download_queue, have, db_bitfield, file, meta_queue, meta_bytes,
                       <<>>, "running")

\* PeerHas(i): one bit of the peer's bitfield is set
HandlePeerHas ==
    /\ CoordReady("PeerHas")
    /\ LET m == Head(rx)
       IN  CoordEffect(torrent_state, peers,
                       IF m.peer_id \in peers /\ m.index + 1 \in DOMAIN has[m.peer_id]
                       THEN [has EXCEPT ![m.peer_id][m.index + 1] = TRUE] ELSE has,
                       download_queue, have, db_bitfield, file, meta_queue, meta_bytes,
                       <<>>, "running")

\* PeerDisconnected: the peer leaves the registry
HandlePeerDisconnected ==
    /\ CoordReady("PeerDisconnected")
    /\ LET p == Head(rx).peer_id
       IN  CoordEffect(torrent_state, peers \ {p}, [has EXCEPT ![p] = <<>>],
                       download_queue, have, db_bitfield, file, meta_queue, meta_bytes,
                       <<>>, "running")

Coordinator ==
    \/ HandleNewConnection
    \/ HandleGotBlock
    \/ HandleNeedBlock
    \/ HandleNeedBlockQueue
    \/ HandleWhatDoWeHave
    \/ HandleNeedMetadataPiece
    \/ HandleReceivedMetadataPiece
    \/ HandleGotMetadataLength
    \/ HandlePeerBitfield
    \/ HandlePeerHas
    \/ HandlePeerDisconnected


\* ---- a peer session: Peer::run (event_loop.rs) -------------------------
\* impl Drop for Peer: PeerDisconnected goes to the coordinator (an error of
\* that send is ignored), the channels and the socket are closed
\* requests handed to the session of p that no Piece has answered
HoldsRequests(p) ==
    \/ \E n \in DOMAIN inbox[p] : inbox[p][n].reqs # <<>>
    \/ \E n \in DOMAIN to_send[p] : to_send[p][n].kind = "Request"
    \/ \E n \in DOMAIN wire[p] : wire[p][n].kind = "Request"

Dropped(p, ffs) ==
    /\ IF manager_result = "running"
       THEN /\ Len(rx) < limits.rx
            /\ rx' = Append(rx, Ev(p, "PeerDisconnected"))
       ELSE rx' = rx
    /\ sess' = [sess EXCEPT ![p] = "closed"]
    /\ am_interested' = [am_interested EXCEPT ![p] = FALSE]
    /\ peer_choking' = [peer_choking EXCEPT ![p] = TRUE]
    /\ peer_interested' = [peer_interested EXCEPT ![p] = FALSE]
    /\ to_send' = [to_send EXCEPT ![p] = <<>>]
    /\ have_sent' = [have_sent EXCEPT ![p] = 0]
    /\ inbox' = [inbox EXCEPT ![p] = <<>>]
    /\ wire' = [wire EXCEPT ![p] = <<>>]
    /\ ext_known' = [ext_known EXCEPT ![p] = FALSE]
    /\ finished_file_seen' = [finished_file_seen EXCEPT ![p] = ffs]
    /\ abandoned' = IF HoldsRequests(p) THEN abandoned \cup {p} ELSE abandoned
    /\ UNCHANGED <<torrent_state, manager_result, peers, has, piece_vars, meta_vars,
                   remote_has, told, twin, started_as, limits, lib_vars>>

\* BitfieldPayload::is_finished and is_empty
bf_is_finished(bf) == \A k \in DOMAIN bf : bf[k]
bf_is_empty(bf) == \A k \in DOMAIN bf : ~bf[k]

\* set_interested: the flag, and the message written when it changes
set_interested(ai, interested) ==
    [am_interested |-> interested,
     written |-> IF interested = ai THEN <<>>
                 ELSE IF interested THEN <<"Interested">> ELSE <<"NotInterested">>]

\* the bitfield is sent whenever we are not finished
we_have_sends_empty(bf, ai) ==
    IF bf_is_finished(bf) THEN set_interested(ai, FALSE)
    ELSE [set_interested(ai, TRUE) EXCEPT !.written = @ \o <<"Bitfield">>]

\* the ResMessage::WeHave(bitfield) arm
we_have(bf, ai) ==
    IF bf_is_finished(bf) THEN set_interested(ai, FALSE)
    ELSE [set_interested(ai, TRUE) EXCEPT
             !.written = @ \o (IF ~bf_is_empty(bf) THEN <<"Bitfield">> ELSE <<>>)]

\* the requests are written whatever the remote peer's choke flag is
ShouldFlushChoked(ai, pc, hs) == hs = 0 /\ ai

\* "request next blocks": the condition at the end of every loop iteration
ShouldFlush(ai, pc, hs) == hs = 0 /\ ai /\ ~pc

\* one iteration of the loop: the state the arm leaves, the events evs it
\* sends to the coordinator, then the request of the next blocks
SessEffect(p, ib, ai, pc, pi, ts, hs, wr, evs, ek, ffs) ==
    LET flush == ShouldFlush(ai, pc, hs)
        out == evs \o (IF flush THEN <<Ev(p, "NeedBlockQueue")>> ELSE <<>>)
    IN  /\ manager_result = "running"
        /\ Len(rx) + Len(out) <= limits.rx
        /\ rx' = rx \o out
        /\ inbox' = [inbox EXCEPT ![p] = ib]
        /\ am_interested' = [am_interested EXCEPT ![p] = ai]
        /\ peer_choking' = [peer_choking EXCEPT ![p] = pc]
        /\ peer_interested' = [peer_interested EXCEPT ![p] = pi]
        /\ to_send' = [to_send EXCEPT ![p] = IF flush THEN <<>> ELSE ts]
        /\ have_sent' = [have_sent EXCEPT ![p] = IF flush THEN Len(ts) ELSE hs]
        /\ wire' = [wire EXCEPT ![p] = IF flush THEN wr \o ts ELSE wr]
        /\ ext_known' = [ext_known EXCEPT ![p] = ek]
        /\ finished_file_seen' = [finished_file_seen EXCEPT ![p] = ffs]
        \* the arm took a WeHave off the channel
        /\ told' = IF ib # inbox[p] /\ Head(inbox[p]).type = "WeHave"
                   THEN [peer |-> p, bf |-> Head(inbox[p]).bf, was |-> am_interested[p],
                         written |-> we_have(Head(inbox[p]).bf, am_interested[p]).written]
                   ELSE told
        /\ UNCHANGED <<sess, torrent_state, manager_result, peers, has, piece_vars,
                       meta_vars, remote_has, twin, started_as, abandoned, limits,
                       lib_vars>>

\* an arm that changes the connection flags only
SessFlags(p, pc, pi) ==
    SessEffect(p, inbox[p], am_interested[p], pc, pi, to_send[p], have_sent[p],
               wire[p], <<>>, ext_known[p], finished_file_seen[p])

\* connect_to_peer_manager sends NewConnection, run starts with WhatDoWeHave
SessConnect(p) ==
    /\ sess[p] = "none"
    /\ manager_result = "running"
    /\ Len(rx) + 2 <= limits.rx
    /\ sess' = [sess EXCEPT ![p] = "running"]
    /\ rx' = rx \o <<Ev(p, "NewConnection"), Ev(p, "WhatDoWeHave")>>
    /\ UNCHANGED <<torrent_state, manager_result, peers, has, piece_vars, meta_vars,
                   am_interested, peer_choking, peer_interested, to_send, have_sent,
                   inbox, wire, ext_known, remote_has, corrupt_left, remote_stage,
                   remote_msgs, told, twin, hist_vars, lib_vars>>

\* Msg::Manager(peer_msg)
SessManagerMsg(p) ==
    /\ sess[p] = "running"
    /\ inbox[p] # <<>>
    /\ LET m == Head(inbox[p])
           ib == Tail(inbox[p])
       IN  IF m.type = "FinishedFile" /\ ~peer_interested[p]
           THEN Dropped(p, TRUE)
           ELSE SessEffect(p, ib,
                       IF m.type = "WeHave" THEN we_have(m.bf, am_interested[p]).am_interested
                       ELSE am_interested[p],
                       peer_choking[p], peer_interested[p],
                       CASE m.type = "NewBlockQueue" -> to_send[p] \o m.reqs
                         [] m.type = "ExtensionData" /\ ext_known[p] ->
                                Append(to_send[p], MetaRequest(m.index))
                         [] OTHER -> to_send[p],
                       have_sent[p], wire[p],
                       IF m.type = "StartDownload" THEN <<Ev(p, "NeedBlockQueue")>> ELSE <<>>,
                       ext_known[p],
                       finished_file_seen[p] \/ m.type = "FinishedFile")
    /\ UNCHANGED <<corrupt_left, remote_stage, remote_msgs>>

\* a message the remote peer sends on its own, within its budget
Unsolicited(p) ==
    /\ sess[p] = "running"
    /\ remote_msgs[p] < MaxRemoteMsgs
    /\ remote_msgs' = [remote_msgs EXCEPT ![p] = @ + 1]
    /\ remote_stage' = [remote_stage EXCEPT ![p] = 2]
    /\ UNCHANGED corrupt_left

SessForward(p, evs) ==
    SessEffect(p, inbox[p], am_interested[p], peer_choking[p], peer_interested[p],
               to_send[p], have_sent[p], wire[p], evs, ext_known[p], finished_file_seen[p])

\* Msg::Data(Choke), Msg::Data(Unchoke), Msg::Data(Interested), Msg::Data(NotInterested)
SessRecvChoke(p) ==
    /\ Unsolicited(p)
    /\ ~peer_choking[p]
    /\ SessFlags(p, TRUE, peer_interested[p])

SessRecvUnchoke(p) ==
    /\ sess[p] = "running" /\ peer_choking[p]
    /\ SessFlags(p, FALSE, peer_interested[p])
    /\ UNCHANGED <<corrupt_left, remote_stage, remote_msgs>>

SessRecvInterested(p) ==
    /\ sess[p] = "running" /\ ~peer_interested[p]
    /\ SessFlags(p, peer_choking[p], TRUE)
    /\ UNCHANGED <<corrupt_left, remote_stage, remote_msgs>>

SessRecvNotInterested(p) ==
    /\ Unsolicited(p)
    /\ peer_interested[p]
    /\ SessFlags(p, peer_choking[p], FALSE)

\* Msg::Timeout: a keep-alive goes out, then the end of the iteration
SessTimeout(p) ==
    /\ Unsolicited(p)
    /\ ShouldFlush(am_interested[p], peer_choking[p], have_sent[p])
    /\ SessForward(p, <<>>)

\* Msg::Data(Bitfield), Msg::Data(Have), Msg::Data(Request)
\* a Bitfield comes once, after the handshakes and before any Have or Request
SessRecvBitfield(p) ==
    /\ sess[p] = "running"
    /\ remote_stage[p] < 2
    /\ remote_stage' = [remote_stage EXCEPT ![p] = 2]
    /\ UNCHANGED <<corrupt_left, remote_msgs>>
    /\ SessForward(p, <<ReqMsg(p, "PeerBitfield", 0, 0, 0, "-", remote_has[p])>>)

SessRecvHave(p) ==
    /\ Unsolicited(p)
    /\ \E i \in Pieces : SessForward(p, <<ReqMsg(p, "PeerHas", i, 0, 0, "-", <<>>)>>)

SessRecvRequest(p) ==
    /\ Unsolicited(p)
    /\ \E i \in Pieces :
          SessForward(p, <<ReqMsg(p, "NeedBlock", i, 0, get_block_len(
                              div_ceil(get_piece_size(metainfo, i), BLOCK_MAX),
                              get_piece_size(metainfo, i), 0),
                              "-", <<>>)>>)


\* `have_sent -= 1` on a usize: at 0 the debug build panics and the release
\* build wraps; a wrapped counter is kept as a negative number
Underflows(hs) == hs = 0

\* the builds' outcomes of the decrement: TRUE is "the session goes on"
DecrementOutcomes(hs) == IF Underflows(hs) THEN BOOLEAN ELSE {TRUE}

\* the event a Piece or a ut_metadata Data message is forwarded as
PieceEvent(p, r, data) ==
    IF r.kind = "Request"
    THEN ReqMsg(p, "GotBlock", r.index, r.begin, r.length, data, <<>>)
    ELSE ReqMsg(p, "ReceivedMetadataPiece", r.index, 0, MetadataSize, data, <<>>)

\* what the remote peer puts into a block: the first corrupt_left[p] blocks
\* it sends are corrupted, every later one is correct
BlockData(p) == IF corrupt_left[p] > 0 THEN "bad" ELSE "good"

\* Msg::Data(Piece): the remote peer answers the oldest request on the wire
\* (a ut_metadata request is answered by a Data message, handle_action)
SessRecvPiece(p) ==
    /\ sess[p] = "running"
    /\ wire[p] # <<>>
    /\ \E goes_on \in DecrementOutcomes(have_sent[p]) :
          /\ corrupt_left' = [corrupt_left EXCEPT ![p] = IF @ > 0 THEN @ - 1 ELSE @]
          /\ IF ~goes_on THEN Dropped(p, finished_file_seen[p])
             ELSE SessEffect(p, inbox[p], am_interested[p], peer_choking[p],
                             peer_interested[p], to_send[p], have_sent[p] - 1,
                             Tail(wire[p]),
                             <<PieceEvent(p, Head(wire[p]), BlockData(p))>>,
                             ext_known[p], finished_file_seen[p])
    /\ UNCHANGED <<remote_stage, remote_msgs>>

\* Msg::Data(Extended), id 0: the extension handshake; update_extensions
\* registers the handler and on_handshake asks for the metadata
SessRecvExtHandshake(p) ==
    /\ sess[p] = "running"
    /\ remote_stage[p] = 0
    /\ remote_stage' = [remote_stage EXCEPT ![p] = 1]
    /\ UNCHANGED <<corrupt_left, remote_msgs>>
    /\ SessEffect(p, inbox[p], am_interested[p], peer_choking[p], peer_interested[p],
                  to_send[p], have_sent[p], wire[p],
                  <<ReqMsg(p, "GotMetadataLength", 0, 0, MetadataSize, "-", <<>>),
                    Ev(p, "NeedMetadataPiece")>>,
                  TRUE, finished_file_seen[p])

\* Msg::Data(Extended), ut_metadata: a Data message nobody asked for
SessRecvMetadataData(p) ==
    /\ Unsolicited(p)
    /\ ext_known[p]
    /\ \E data \in {"good", "bad"}, goes_on \in DecrementOutcomes(have_sent[p]) :
          IF ~goes_on THEN Dropped(p, finished_file_seen[p])
          ELSE SessEffect(p, inbox[p], am_interested[p], peer_choking[p],
                          peer_interested[p], to_send[p], have_sent[p] - 1, wire[p],
                          <<PieceEvent(p, MetaRequest(0), data)>>,
                          ext_known[p], finished_file_seen[p])

\* the stream ends, a socket write fails, a message does not parse: run
\* returns and the session is dropped
SessTerminate(p) ==
    /\ sess[p] = "running"
    /\ Dropped(p, finished_file_seen[p])
    /\ UNCHANGED <<corrupt_left, remote_stage, remote_msgs>>

Session(p) ==
    \/ SessConnect(p)
    \/ SessManagerMsg(p)
    \/ SessRecvChoke(p)
    \/ SessRecvUnchoke(p)
    \/ SessRecvInterested(p)
    \/ SessRecvNotInterested(p)
    \/ SessTimeout(p)
    \/ SessRecvBitfield(p)
    \/ SessRecvHave(p)
    \/ SessRecvRequest(p)
    \/ SessRecvPiece(p)
    \/ SessRecvExtHandshake(p)
    \/ SessRecvMetadataData(p)
    \/ SessTerminate(p)

Next == Coordinator \/ \E p \in PeerIds : Session(p)

Spec == Init /\ [][Next]_vars

\* ---- a swarm of two seeders and a torrent file ---------------------------
InitSwarm == InitWith({"Downloading"}, PeerIds, {TRUE}, {Seeder}, {0},
                      Limits(RxCap, InboxCap, MaxQueueLen))

CoordinatorSwarm ==
    \/ HandleNewConnection
    \/ HandleWhatDoWeHave
    \/ HandleNeedBlockQueue
    \/ HandleGotBlock
    \/ HandlePeerBitfield
    \/ HandlePeerDisconnected

SessionSwarm(p) ==
    \/ SessConnect(p)
    \/ SessManagerMsg(p)
    \/ SessRecvUnchoke(p)
    \/ SessRecvBitfield(p)
    \/ SessRecvPiece(p)
    \/ SessTerminate(p)

NextSwarm == CoordinatorSwarm \/ \E p \in PeerIds : SessionSwarm(p)

SpecSwarm == InitSwarm /\ [][NextSwarm]_vars

\* ---- one registered seeder, the channels at their capacities -------------
\* bitfields of a download that was interrupted one piece before its end
OnePieceMissing == {bf \in [Pieces -> BOOLEAN] : Cardinality({i \in Pieces : ~bf[i]}) = 1}

\* the data file PieceManager::new finds: the pieces of the stored bitfield,
\* written in the order of their indices by an earlier run
RECURSIVE ResumedFile(_, _)
ResumedFile(bitfield, n) ==
    IF n = 0 THEN {}
    ELSE LET f == ResumedFile(bitfield, n - 1)
             st == PieceState_new(metainfo, n - 1)
             verified == [st EXCEPT !.buf = [k \in DOMAIN st.buf |-> "good"]]
         IN  IF bitfield[n - 1] THEN write_piece_to_file(f, verified) ELSE f

\* The state after init_from_torrent, the peer's NewConnection and
\* WhatDoWeHave and the remote peer's Bitfield and Unchoke: the peer is in the
\* registry with all pieces, StartDownload and WeHave wait in its channel.
InitRegistered(platforms, bitfields, corrupt) ==
    /\ torrent_state = "Downloading"
    /\ started_as = torrent_state
    /\ abandoned = {}
    /\ limits = Limits(RX_CAPACITY, INBOX_CAPACITY, RX_CAPACITY)
    /\ manager_result = "running"
    /\ peers = {1}
    /\ has = [p \in PeerIds |-> IF p = 1 THEN Seeder ELSE <<>>]
    /\ rx = <<>>
    /\ have \in bitfields
    /\ db_bitfield = have
    /\ o_append_ignores_offset \in platforms
    /\ storage = "ok"
    /\ file = ResumedFile(have, NumPieces)
    /\ download_queue = <<>>
    /\ meta_queue = <<>>
    /\ meta_bytes = [len |-> 0, blocks |-> <<>>]
    /\ sess = [p \in PeerIds |-> IF p = 1 THEN "running" ELSE "absent"]
    /\ am_interested = [p \in PeerIds |-> FALSE]
    /\ peer_choking = [p \in PeerIds |-> p # 1]
    /\ peer_interested = [p \in PeerIds |-> FALSE]
    /\ to_send = [p \in PeerIds |-> <<>>]
    /\ have_sent = [p \in PeerIds |-> 0]
    /\ inbox = [p \in PeerIds |->
                  IF p = 1 THEN <<Res("StartDownload"),
                                  ResMsg("WeHave", 0, <<>>, AsVec(have))>>
                  ELSE <<>>]
    /\ wire = [p \in PeerIds |-> <<>>]
    /\ ext_known = [p \in PeerIds |-> FALSE]
    /\ remote_has = [p \in PeerIds |-> Seeder]
    /\ corrupt_left = [p \in PeerIds |-> IF p = 1 THEN corrupt ELSE 0]
    /\ remote_stage = [p \in PeerIds |-> IF p = 1 THEN 2 ELSE 0]
    /\ remote_msgs = [p \in PeerIds |-> 0]
    /\ twin = [p \in PeerIds |-> NoTwin]
    /\ told = NotTold
    /\ finished_file_seen = [p \in PeerIds |-> FALSE]
    /\ LibIdle

CoordinatorDownload ==
    \/ HandleNeedBlockQueue
    \/ HandleGotBlock
    \/ HandlePeerDisconnected

NextDownload ==
    \/ CoordinatorDownload
    \/ \E p \in PeerIds : SessManagerMsg(p) \/ SessRecvPiece(p)

\* the coordinator's task and the session's task are scheduled while they
\* can take a step; the session's stream yields the control messages and the
\* remote peer's answers alike
FairDownload ==
    /\ WF_vars(CoordinatorDownload)
    /\ \A p \in PeerIds : WF_vars(SessManagerMsg(p)) /\ WF_vars(SessRecvPiece(p))

SpecDownload == InitRegistered(BOOLEAN, {NoBitfield}, 0) /\ [][NextDownload]_vars /\ FairDownload

\* a resumed download with one piece missing, of which the seeder corrupts
\* the first blocks it sends
SpecRecovery == InitRegistered(BOOLEAN, OnePieceMissing, MaxCorrupt) /\ [][NextDownload]_vars /\ FairDownload


\* ---- the selector driven by peer events ---------------------------------
\* what remote peer p has: the swarm of the rarity scenario ([1,1,1,0],
\* [1,1,0,0], [0,1,1,0]); a further peer has piece 1 only
RemotePieces(p) ==
    CASE p = 1 -> {0, 1, 2}
      [] p = 2 -> {0, 1}
      [] p = 3 -> {1, 2}
      [] OTHER -> {1}

\* the pieces a remote peer announces with Have: the one nobody had
AnnouncedPieces == {SelPieces - 1}

RemoteBitfield(p) == [k \in 1 .. SelPieces |-> (k - 1) \in RemotePieces(p)]

SelStep(op, p, count, r) ==
    /\ sel_out.ret.kind # "panic"
    /\ sel_out.calls < MaxSelCalls
    /\ selector' = r.sel
    \* history: the pieces returned so far, and whether one came twice
    /\ sel_out' = [op |-> op, peer |-> p, count |-> count, ret |-> r.ret,
                   calls |-> sel_out.calls + 1,
                   yielded |-> sel_out.yielded \cup {r.ret.queue[k] : k \in DOMAIN r.ret.queue},
                   repeated |-> \/ sel_out.repeated
                                \/ \E k \in DOMAIN r.ret.queue :
                                      \/ r.ret.queue[k] \in sel_out.yielded
                                      \/ \E j \in 1 .. (k - 1) : r.ret.queue[j] = r.ret.queue[k]]
    /\ UNCHANGED <<coord_vars, piece_vars, meta_vars, sess_vars, hist_vars, probe, codec, ext>>

\* PieceSelector::new(have) with the bitfield of a fresh or of a resumed
\* download, no peer connected
InitSelector ==
    /\ InitCoordinator({"Downloading"}, {}, {TRUE}, {Seeder}, {0},
                       Limits(RxCap, InboxCap, MaxQueueLen))
    /\ selector \in {PieceSelector_new([i \in SelPieceIds |-> FALSE]),
                     PieceSelector_new([i \in SelPieceIds |-> i = 1])}
    /\ sel_out = NoCall
    /\ probe = NoProbe
    /\ codec = NoCodec
    /\ ext = NoExt

SelAddPeer(p) ==
    \E s \in {add_peer(selector, p)} :
        /\ s # selector
        /\ SelStep("add_peer", p, 0, [sel |-> s, ret |-> RetNone])

SelRemovePeer(p) ==
    /\ p \in DOMAIN selector.peer_bitfields
    /\ \E s \in {remove_peer(selector, p)} :
          SelStep("remove_peer", p, 0, [sel |-> s, ret |-> RetNone])

SelAddBitfield(p) ==
    /\ p \in DOMAIN selector.peer_bitfields
    /\ \E s \in {add_bitfield(selector, p, RemoteBitfield(p))} :
          SelStep("add_bitfield", p, 0, [sel |-> s, ret |-> RetNone])

SelUpdateHave(p) ==
    /\ p \in DOMAIN selector.peer_bitfields
    /\ \E i \in AnnouncedPieces : \E s \in {update_have(selector, p, i)} :
          /\ s # selector
          /\ SelStep("update_have", p, 0, [sel |-> s, ret |-> RetNone])

SelCounts == (1 .. MaxSelCount) \cup {MAX_PIECES_IN_PARALLEL}

SelSelect(p) ==
    /\ p \in DOMAIN selector.peer_bitfields
    /\ \E count \in SelCounts :
       \E r \in {select_pieces_for_peer(selector, p, count)} :
          SelStep("select", p, count, r)

NextSelector ==
    \E p \in SelPeerIds :
          \/ SelAddPeer(p)
          \/ SelRemovePeer(p)
          \/ SelAddBitfield(p)
          \/ SelUpdateHave(p)
          \/ SelSelect(p)

SpecSelector == InitSelector /\ [][NextSelector]_vars

\* ---- magnet bootstrap ----------------------------------------------------
\* init_from_magnet without a persisted entry; one remote peer that
\* advertises metadata_size, has every piece and answers what it is asked
InitMagnet ==
    InitWith({"WaitingForMetadata"}, {1}, {TRUE}, {Seeder}, {0},
             Limits(RX_CAPACITY, INBOX_CAPACITY, RX_CAPACITY))

CoordinatorMagnet ==
    \/ HandleNewConnection
    \/ HandleWhatDoWeHave
    \/ HandleGotMetadataLength
    \/ HandleNeedMetadataPiece
    \/ HandleReceivedMetadataPiece
    \/ HandleNeedBlockQueue
    \/ HandlePeerBitfield

\* the steps of the session that the code or a serving peer takes
SessionMagnet(p) ==
    \/ SessConnect(p)
    \/ SessManagerMsg(p)
    \/ SessRecvExtHandshake(p)
    \/ SessRecvUnchoke(p)
    \/ SessRecvBitfield(p)

\* a metadata block that the remote peer sends without having been asked
NextMagnet ==
    \/ CoordinatorMagnet
    \/ \E p \in PeerIds : SessionMagnet(p)
    \/ \E p \in PeerIds : SessRecvMetadataData(p)

\* the coordinator's task and the session's task are scheduled, and the
\* remote peer sends its handshake, bitfield and unchoke; it is free to send
\* or not to send what it was not asked for
FairMagnet ==
    /\ WF_vars(CoordinatorMagnet)
    /\ \A p \in PeerIds : WF_vars(SessionMagnet(p))

SpecMagnet == InitMagnet /\ [][NextMagnet]_vars /\ FairMagnet

\* ---- restart from a persisted entry --------------------------------------
\* what the database may hold at start-up: every piece, or all but one
StoredBitfields == {[i \in Pieces |-> TRUE]} \cup OnePieceMissing

\* PieceManager::new: todo!() panics when the stored entry is finished
PieceManager_new_panics(entry_bitfield) == is_finished(entry_bitfield)

\* init_from_torrent with a persisted entry.  When PieceManager::new panics
\* no coordinator exists (torrent_state is the Downloading that from_info was
\* building) and no peer is ever connected; started_as records "Finished"
\* when the entry was.
InitRestart ==
    /\ db_bitfield \in StoredBitfields
    /\ torrent_state = "Downloading"
    /\ started_as = IF is_finished(db_bitfield) THEN "Finished" ELSE torrent_state
    /\ manager_result = IF PieceManager_new_panics(db_bitfield) THEN "Panic" ELSE "running"
    /\ have = IF PieceManager_new_panics(db_bitfield) THEN NoBitfield ELSE db_bitfield
    /\ sess = [p \in PeerIds |->
                 IF p = 1 /\ ~PieceManager_new_panics(db_bitfield) THEN "none" ELSE "absent"]
    /\ o_append_ignores_offset \in BOOLEAN
    /\ storage = "ok"
    /\ file = ResumedFile(db_bitfield, NumPieces)
    /\ abandoned = {}
    /\ limits = Limits(RxCap, InboxCap, MaxQueueLen)
    /\ peers = {}
    /\ has = [p \in PeerIds |-> <<>>]
    /\ rx = <<>>
    /\ download_queue = <<>>
    /\ meta_queue = <<>>
    /\ meta_bytes = [len |-> 0, blocks |-> <<>>]
    /\ am_interested = [p \in PeerIds |-> FALSE]
    /\ peer_choking = [p \in PeerIds |-> TRUE]
    /\ peer_interested = [p \in PeerIds |-> FALSE]
    /\ to_send = [p \in PeerIds |-> <<>>]
    /\ have_sent = [p \in PeerIds |-> 0]
    /\ inbox = [p \in PeerIds |-> <<>>]
    /\ wire = [p \in PeerIds |-> <<>>]
    /\ ext_known = [p \in PeerIds |-> FALSE]
    /\ remote_has = [p \in PeerIds |-> Seeder]
    /\ corrupt_left = [p \in PeerIds |-> 0]
    /\ remote_stage = [p \in PeerIds |-> 0]
    /\ remote_msgs = [p \in PeerIds |-> 0]
    /\ twin = [p \in PeerIds |-> NoTwin]
    /\ told = NotTold
    /\ finished_file_seen = [p \in PeerIds |-> FALSE]
    /\ LibIdle

SpecRestart == InitRestart /\ [][NextSwarm]_vars

\* ---- block accounting (req_preparer.rs) ---------------------------------
\* the torrents whose accounting is computed: up to MaxProbePieces pieces,
\* piece lengths and last-piece lengths around the multiples of BLOCK_MAX
MaxProbePieces == 3
ProbeLengths ==
    {1, BLOCK_MAX - 1, BLOCK_MAX, BLOCK_MAX + 1, 2 * BLOCK_MAX, 2 * BLOCK_MAX + 1}

ProbeInfos ==
    {Metainfo(t[2] * (t[1] - 1) + t[3], t[2], t[1]) :
        t \in {u \in (1 .. MaxProbePieces) \X ProbeLengths \X ProbeLengths :
                  u[3] <= u[2]}}

InitAccounting ==
    /\ InitCoordinator({"Downloading"}, {}, {TRUE}, {Seeder}, {0},
                       Limits(RxCap, InboxCap, MaxQueueLen))
    /\ selector = PieceSelector_new(NoBitfield)
    /\ sel_out = NoCall
    /\ \E info \in ProbeInfos : probe = [NoProbe EXCEPT !.info = info, !.stage = "info"]
    /\ codec = NoCodec
    /\ ext = NoExt

\* PieceState::new(torrent_info, piece_i)
ProbeNew ==
    /\ probe.stage = "info"
    /\ \E piece_i \in 0 .. (probe.info.pieces - 1) :
          probe' = [probe EXCEPT !.stage = "new",
                                 !.state = PieceState_new(probe.info, piece_i)]
    /\ UNCHANGED <<coord_vars, piece_vars, meta_vars, sess_vars, hist_vars,
                   selector, sel_out, codec, ext>>

\* the loop of prepare_next_blocks on the piece: up to n None blocks become
\* InProcess and their requests are issued
ProbeRequests ==
    /\ probe.stage \in {"new", "requested"}
    /\ NeedsBlocks(probe.state)
    /\ \E n \in {1, BLOCK_QUEUE_SIZE_MAX} :
          LET taken == TakeNone(probe.state.blocks, n)
          IN  probe' = [probe EXCEPT
                  !.stage = "requested",
                  !.state.blocks = [k \in DOMAIN @ |->
                                       IF k \in taken THEN "InProcess" ELSE @[k]],
                  !.requests = @ \o RequestsOf(probe.state, taken, 1)]
    /\ UNCHANGED <<coord_vars, piece_vars, meta_vars, sess_vars, hist_vars,
                   selector, sel_out, codec, ext>>

NextAccounting == ProbeNew \/ ProbeRequests

SpecAccounting == InitAccounting /\ [][NextAccounting]_vars

\* ---- the codec applied to messages (messages/mod.rs) ---------------------
\* longest bitfield and longest block of the messages encoded
MaxBits == 9
MaxBlockBytes == 2
\* values of the u32 fields and of the bytes of a block
FieldValues == {0, 258, 2147483647}
ByteValues == {0, 255}

BoolVectors == UNION {[1 .. n -> BOOLEAN] : n \in 0 .. MaxBits}
Blocks == UNION {[1 .. n -> ByteValues] : n \in 0 .. MaxBlockBytes}

CodecMessages ==
    {MessageAll(k, NoPayload) :
        k \in {"Choke", "Unchoke", "Interested", "NotInterested", "KeepAlive"}}
    \cup {MessageAll("Have", HavePayload(i)) : i \in FieldValues}
    \cup {MessageAll("Bitfield", BitfieldPayload(v)) : v \in BoolVectors}
    \cup {MessageAll(k, RequestPiecePayload(i, b, l)) :
            k \in {"Request", "Cancel"}, i \in FieldValues, b \in FieldValues,
            l \in FieldValues}
    \cup {MessageAll("Piece", ResponsePiecePayload(i, b, d)) :
            i \in FieldValues, b \in FieldValues, d \in Blocks}

CodecStep(c) ==
    /\ codec' = c
    /\ UNCHANGED <<coord_vars, piece_vars, meta_vars, sess_vars, hist_vars,
                   selector, sel_out, probe, ext>>

\* Message::new(payload) of any message
InitCodec ==
    /\ InitCoordinator({"Downloading"}, {}, {TRUE}, {Seeder}, {0},
                       Limits(RxCap, InboxCap, MaxQueueLen))
    /\ selector = PieceSelector_new(NoBitfield)
    /\ sel_out = NoCall
    /\ probe = NoProbe
    /\ \E m \in CodecMessages :
          codec = [NoCodec EXCEPT !.stage = "message", !.item = Message_new(m)]
    /\ ext = NoExt

\* encode(item, dst) into an empty buffer
CodecEncode ==
    /\ codec.stage = "message"
    /\ \E r \in {encode(codec.item, <<>>)} :
          /\ r.ok
          /\ CodecStep([codec EXCEPT !.stage = "encoded", !.src = r.dst,
                                     !.written = Len(r.dst)])

\* decode(src) on the bytes that encode produced
CodecDecode ==
    /\ codec.stage = "encoded"
    /\ \E r \in {decode(codec.src)} :
          CodecStep([codec EXCEPT !.stage = "decoded", !.ret = r, !.src = r.src])

\* BitfieldPayload::to_be_bytes
CodecBitfieldToBytes ==
    /\ codec.stage = "message"
    /\ codec.item.payload.kind = "Bitfield"
    /\ \E b \in {to_be_bytes(codec.item.payload)} :
          CodecStep([codec EXCEPT !.stage = "bytes", !.src = b, !.written = Len(b)])

\* BitfieldPayload::from_be_bytes on the bytes that to_be_bytes produced
CodecBitfieldFromBytes ==
    /\ codec.stage = "bytes"
    /\ CodecStep([codec EXCEPT
          !.stage = "payload",
          !.ret = Decoded("Some",
                      Message(0, MessageAll("Bitfield",
                          BitfieldPayload(BitfieldPayload_from_be_bytes(codec.src)))),
                      <<>>)])

NextCodec ==
    \/ CodecEncode
    \/ CodecDecode
    \/ CodecBitfieldToBytes
    \/ CodecBitfieldFromBytes

SpecCodec == InitCodec /\ [][NextCodec]_vars

\* ---- the framer on the stream of a remote peer ----------------------------
\* frames a remote peer writes
MaxFrames == 3
\* a frame as the protocol defines it: the length prefix counts the message
\* id and the payload; a keep-alive is the prefix 0 alone
RemoteFrame(msg_type, payload) ==
    u32_to_be_bytes(1 + Len(payload)) \o <<msg_type>> \o payload
KeepAliveFrame == u32_to_be_bytes(0)

\* the messages a remote peer sends: the bytes, and the message they stand
\* for (none for a message id outside MessageType)
RemoteMessages ==
    {[bytes |-> RemoteFrame(1, <<>>), msg |-> <<MessageAll("Unchoke", NoPayload)>>],
     [bytes |-> RemoteFrame(4, u32_to_be_bytes(258)),
      msg |-> <<MessageAll("Have", HavePayload(258))>>],
     [bytes |-> KeepAliveFrame, msg |-> <<MessageAll("KeepAlive", NoPayload)>>],
     [bytes |-> RemoteFrame(9, <<26, 225>>), msg |-> <<>>],
     [bytes |-> RemoteFrame(20, <<>>), msg |-> <<>>]}

\* the connection is established, nothing was written
InitFramed ==
    /\ InitCoordinator({"Downloading"}, {}, {TRUE}, {Seeder}, {0},
                       Limits(RxCap, InboxCap, MaxQueueLen))
    /\ selector = PieceSelector_new(NoBitfield)
    /\ sel_out = NoCall
    /\ probe = NoProbe
    /\ codec = [NoCodec EXCEPT !.stage = "framing"]
    /\ ext = NoExt

\* the remote peer writes one more frame
RemoteWrite ==
    /\ codec.stage = "framing"
    /\ codec.frames < MaxFrames
    /\ \E f \in RemoteMessages :
          CodecStep([codec EXCEPT !.socket = @ \o f.bytes, !.frames = @ + 1,
                                  !.fed = @ \o f.msg])

\* framed.next() while the buffer is readable: decode is called; a frame is
\* returned, or Ok(None) ends the readable state until more bytes were read
FramedDecode ==
    /\ codec.stage = "framing"
    /\ codec.is_readable
    /\ \E r \in {decode(codec.src)} :
          CodecStep([codec EXCEPT
              !.ret = r,
              !.src = r.src,
              !.stage = IF r.kind \in {"Err", "Panic"} THEN "failed" ELSE @,
              !.is_readable = (r.kind = "Some"),
              !.delivered = IF r.kind = "Some" THEN Append(@, r.item.payload) ELSE @])

\* framed.next() while the buffer is not readable: the bytes that have
\* arrived are read into the buffer, which is readable again
FramedRead ==
    /\ codec.stage = "framing"
    /\ ~codec.is_readable
    /\ \E n \in 1 .. Len(codec.socket) :
          CodecStep([codec EXCEPT
              !.src = @ \o SubSeq(codec.socket, 1, n),
              !.socket = SubSeq(@, n + 1, Len(@)),
              !.is_readable = TRUE])

\* the session polls its stream
FramedNext == FramedDecode \/ FramedRead

NextFramed == RemoteWrite \/ FramedNext

\* the session's task is scheduled; the remote peer writes when it wants to
SpecFramed == InitFramed /\ [][NextFramed]_vars /\ WF_vars(FramedNext)

\* ---- the ut_metadata exchange (metadata_requester.rs, ------------------
\* ---- metadata_piece_manager.rs, the Extension arms of PeerManager::run) --
\* the longest info dictionary, in blocks
MaxMetaBlocks == 3
\* sizes of the info dictionary, and sizes a peer advertises
MetaSizes ==
    {MetadataSize, METADATA_BLOCK_SIZE, METADATA_BLOCK_SIZE + 1}
    \cup {(n - 1) * METADATA_BLOCK_SIZE + 3 : n \in 2 .. MaxMetaBlocks}

\* the metadata_size a peer advertises: that of the info dictionary, another
\* one, or none at all
AdvertisedSizes == MetaSizes \cup {0}

\* the length of block k of an info dictionary of size bytes
MetadataBlockLen(size, k) ==
    IF (k + 1) * METADATA_BLOCK_SIZE <= size THEN METADATA_BLOCK_SIZE
    ELSE size - k * METADATA_BLOCK_SIZE

\* the Data message with which a peer serves block k of the info dictionary
ServedBlock(size, k, content) ==
    MetadataMsg(k, SomeSize(size), MetadataBlockLen(size, k), content)

\* the ut_metadata messages a remote peer sends: the blocks of the info
\* dictionary served intact or corrupted, the same with the length of the
\* block as total_size, and messages without total_size (request, reject)
RemoteMetadataMsgs(size) ==
    UNION {{ServedBlock(size, k, content),
            MetadataMsg(k, SomeSize(MetadataBlockLen(size, k)),
                        MetadataBlockLen(size, k), content),
            MetadataMsg(k, NoSize, 0, "zero")} :
              k \in 0 .. (div_ceil(size, METADATA_BLOCK_SIZE) - 1),
              content \in {"good", "bad"}}

InitMetadata ==
    /\ InitCoordinator({"WaitingForMetadata"}, {}, {TRUE}, {Seeder}, {0},
                       Limits(RxCap, InboxCap, MaxQueueLen))
    /\ selector = PieceSelector_new(NoBitfield)
    /\ sel_out = NoCall
    /\ probe = NoProbe
    /\ codec = NoCodec
    /\ \E size \in MetaSizes :
          ext = [NoExt EXCEPT !.info_size = size,
                              !.outstanding = [k \in 1 .. MaxMetaBlocks |-> 0]]

MetaStep(state, mq, mb, e) ==
    /\ torrent_state' = state
    /\ meta_queue' = mq
    /\ meta_bytes' = mb
    /\ ext' = e
    /\ UNCHANGED <<manager_result, peers, has, rx, piece_vars, sess_vars, hist_vars,
                   selector, sel_out, probe, codec>>

Engine == [queue |-> meta_queue, bytes |-> meta_bytes]

\* Extension(GotMetadataLength(length)) of a peer's extension handshake
MetaGotLength ==
    /\ WaitingForMetadataArm(torrent_state)
    /\ ext.stage # "panic"
    /\ \E len \in AdvertisedSizes :
          \E r \in {set_len(meta_queue, meta_bytes, len)} :
              MetaStep(torrent_state, r.queue, r.bytes,
                       [ext EXCEPT !.op = "set_len", !.ret = len, !.before = Engine,
                                   !.set_len_calls = IF @ < 2 THEN @ + 1 ELSE @])

\* Extension(NeedMetadataPiece): get_block_req_data; the request goes to the
\* peer that asked
MetaNeedPiece ==
    /\ WaitingForMetadataArm(torrent_state)
    /\ ext.stage # "panic"
    /\ \E k \in {get_block_req_data(meta_queue)} :
          IF k = 0
          THEN MetaStep(torrent_state, meta_queue, meta_bytes,
                        [ext EXCEPT !.op = "get_block_req_data", !.ret = 0,
                                    !.before = Engine])
          ELSE /\ ext.outstanding[k] < 2
               /\ MetaStep(torrent_state, [meta_queue EXCEPT ![k] = "InProcess"],
                           meta_bytes,
                           [ext EXCEPT !.op = "get_block_req_data", !.ret = k,
                                       !.before = Engine,
                                       !.outstanding[k] = @ + 1])

\* a session receives a ut_metadata message: handle_message
MetaHandleMessage ==
    /\ ext.stage \notin {"handled", "panic"}
    /\ \E msg \in RemoteMetadataMsgs(ext.info_size) :
          \E action \in {handle_message(msg)} :
              MetaStep(torrent_state, meta_queue, meta_bytes,
                       [ext EXCEPT !.msg = msg, !.action = action,
                                   !.stage = IF action.kind = "Nothing"
                                             THEN "dropped" ELSE "handled"])

\* Extension(ReceivedMetadataPiece { piece_index, data }): add_block and
\* check_finished
MetaReceived ==
    /\ ext.stage = "handled"
    /\ LET a == ext.action IN
       IF ~WaitingForMetadataArm(torrent_state)
       THEN MetaStep(torrent_state, meta_queue, meta_bytes, [ext EXCEPT !.stage = "ignored"])
       ELSE IF add_block_panics(meta_queue, meta_bytes, a.piece_index, a.len)
       THEN MetaStep(torrent_state, meta_queue, meta_bytes, [ext EXCEPT !.stage = "panic"])
       ELSE \E added \in {add_block(meta_queue, meta_bytes, a.piece_index, a.data, a.len)} :
            \E chk \in {check_finished(added.queue, added.bytes, ext.info_size)} :
               MetaStep(IF chk.finished THEN "Downloading" ELSE torrent_state,
                        chk.queue, added.bytes,
                        [ext EXCEPT !.stage = "received", !.op = "check_finished",
                                    !.ret = IF chk.finished THEN 1 ELSE 0,
                                    !.before = added,
                                    !.outstanding[a.piece_index + 1] = 0])

NextMetadata ==
    \/ MetaGotLength
    \/ MetaNeedPiece
    \/ MetaHandleMessage
    \/ MetaReceived

SpecMetadata == InitMetadata /\ [][NextMetadata]_vars

\* ---- peers that join before and after the metadata is complete -----------
\* init_from_magnet or init_from_torrent; the remote peers of the swarm
\* connect, advertise and serve the metadata, and may go away
InitJoin ==
    InitWith({"WaitingForMetadata", "Downloading"}, PeerIds, {TRUE}, {Seeder}, {0},
             Limits(RxCap, InboxCap, MaxQueueLen))

CoordinatorJoin ==
    \/ HandleNewConnection
    \/ HandleWhatDoWeHave
    \/ HandleGotMetadataLength
    \/ HandleNeedMetadataPiece
    \/ HandleReceivedMetadataPiece
    \/ HandleNeedBlockQueue
    \/ HandlePeerDisconnected

SessionJoin(p) ==
    \/ SessConnect(p)
    \/ SessManagerMsg(p)
    \/ SessRecvExtHandshake(p)
    \/ SessRecvMetadataData(p)
    \/ SessTerminate(p)

NextJoin == CoordinatorJoin \/ \E p \in PeerIds : SessionJoin(p)

SpecJoin == InitJoin /\ [][NextJoin]_vars

\* ---- two connections with one peer_id ------------------------------------
\* Peer::connect_from_stream takes the peer_id from the handshake the remote
\* peer sent, so a second connection may register under the peer_id of a
\* running session; its send_extended_handshake fails and Drop for Peer sends
\* PeerDisconnected
TwinStep(p, stage, events) ==
    /\ sess[p] # "absent"
    /\ manager_result = "running"
    /\ Len(rx) + Len(events) <= limits.rx
    /\ rx' = rx \o events
    /\ twin' = [twin EXCEPT ![p].stage = stage]
    /\ UNCHANGED <<torrent_state, manager_result, peers, has, piece_vars, meta_vars,
                   sess, am_interested, peer_choking, peer_interested, to_send,
                   have_sent, inbox, wire, ext_known, remote_has, corrupt_left,
                   remote_stage, remote_msgs, told, hist_vars, lib_vars>>

TwinConnect(p) ==
    /\ twin[p].stage = "none"
    /\ TwinStep(p, "running", <<TwinConnection(p)>>)

TwinTerminate(p) ==
    /\ twin[p].stage = "running"
    /\ TwinStep(p, "closed", <<Ev(p, "PeerDisconnected")>>)

InitRegistry ==
    InitWith({"Downloading"}, {1}, {TRUE}, {Seeder}, {0},
             Limits(RxCap, InboxCap, MaxQueueLen))

NextRegistry ==
    \/ NextSwarm
    \/ \E p \in PeerIds : TwinConnect(p) \/ TwinTerminate(p)

SpecRegistry == InitRegistry /\ [][NextRegistry]_vars

\* ---- a session that is told what we have ----------------------------------
\* the bitfields of torrents of 1 .. MaxBits pieces
WeHaveBitfields == {bf \in BoolVectors : Len(bf) >= 1}

\* a registered session, choked or not by its remote peer, with the answer
\* to its WhatDoWeHave in its channel
InitWeHave ==
    /\ torrent_state = "Downloading"
    /\ started_as = torrent_state
    /\ abandoned = {}
    /\ limits = Limits(RX_CAPACITY, INBOX_CAPACITY, RX_CAPACITY)
    /\ manager_result = "running"
    /\ peers = {1}
    /\ has = [p \in PeerIds |-> <<>>]
    /\ rx = <<>>
    /\ have = NoBitfield
    /\ db_bitfield = have
    /\ o_append_ignores_offset = TRUE
    /\ storage = "ok"
    /\ file = {}
    /\ download_queue = <<>>
    /\ meta_queue = <<>>
    /\ meta_bytes = [len |-> 0, blocks |-> <<>>]
    /\ sess = [p \in PeerIds |-> IF p = 1 THEN "running" ELSE "absent"]
    /\ am_interested = [p \in PeerIds |-> FALSE]
    /\ peer_choking \in {[p \in PeerIds |-> p # 1], [p \in PeerIds |-> TRUE]}
    /\ peer_interested = [p \in PeerIds |-> FALSE]
    /\ to_send = [p \in PeerIds |-> <<>>]
    /\ have_sent = [p \in PeerIds |-> 0]
    /\ \E bf \in WeHaveBitfields :
          inbox = [p \in PeerIds |->
                     IF p = 1 THEN <<ResMsg("WeHave", 0, <<>>, bf)>> ELSE <<>>]
    /\ wire = [p \in PeerIds |-> <<>>]
    /\ ext_known = [p \in PeerIds |-> FALSE]
    /\ remote_has = [p \in PeerIds |-> Seeder]
    /\ corrupt_left = [p \in PeerIds |-> 0]
    /\ remote_stage = [p \in PeerIds |-> IF p = 1 THEN 2 ELSE 0]
    /\ remote_msgs = [p \in PeerIds |-> 0]
    /\ twin = [p \in PeerIds |-> NoTwin]
    /\ told = NotTold
    /\ finished_file_seen = [p \in PeerIds |-> FALSE]
    /\ LibIdle

NextWeHave == \E p \in PeerIds : SessManagerMsg(p)

SpecWeHave == InitWeHave /\ [][NextWeHave]_vars

\* ---- a download on a storage that may fail ------------------------------
\* init_from_torrent on a fresh entry, one remote seeder that may corrupt a
\* block, and a data file or a persisted entry that may fail when a piece is
\* committed
InitFaulty ==
    /\ InitStorage({"Downloading"}, {1}, BOOLEAN, {Seeder}, 0 .. MaxCorrupt,
                   Limits(RxCap, InboxCap, MaxQueueLen), StorageFaults)
    /\ LibIdle

SpecFaulty == InitFaulty /\ [][NextSwarm]_vars

\* ---- the channels at their capacities, a sender waiting for a slot ------
\* slots that the waiting sends take beyond the capacities: no guard of a
\* handler keeps a send back, the sender waits instead
MaxWaiting == 8

InitChannels ==
    InitWith({"Downloading"}, PeerIds, {TRUE}, {Seeder}, {0},
             Limits(RxCap + MaxWaiting, InboxCap + MaxWaiting, MaxQueueLen))

\* send_peer, broadcast_peers: `conn.send(msg).await` returns when the
\* message has a slot of the session's channel. What inbox[p] holds beyond
\* the capacity are the sends the coordinator has not completed, in order.
ManagerWaitsFor(p) == Len(inbox[p]) > InboxCap

\* send_peer_manager: `peer_manager_tx.send(msg).await` returns when the
\* event has a slot of the coordinator's channel. What rx holds beyond the
\* capacity are the sends of the sessions that wait, first come first served.
SessionWaits(p) == \E n \in DOMAIN rx : n > RxCap /\ rx[n].peer_id = p

\* run's loop receives the next event when every send of the last arm has
\* completed
CoordinatorChannels ==
    /\ \A p \in PeerIds : ~ManagerWaitsFor(p)
    /\ \/ HandleNewConnection
       \/ HandleWhatDoWeHave
       \/ HandleNeedBlockQueue
       \/ HandleGotBlock
       \/ HandlePeerBitfield

\* a session polls its streams when the sends of its last arm have
\* completed. stream::select takes from the two streams in turn when both
\* are ready: here the remote peer's message is taken when no message of the
\* coordinator is ready. A session the coordinator waits for stays open.
SessionChannels(p) ==
    /\ ~SessionWaits(p)
    /\ \/ SessConnect(p)
       \/ SessManagerMsg(p)
       \/ /\ inbox[p] = <<>>
          /\ \/ SessRecvUnchoke(p)
             \/ SessRecvBitfield(p)
             \/ SessRecvPiece(p)
    /\ ManagerWaitsFor(p) => sess'[p] = "running"

NextChannels == CoordinatorChannels \/ \E p \in PeerIds : SessionChannels(p)

SpecChannels == InitChannels /\ [][NextChannels]_vars

\* ---- properties --------------------------------------------------------
\* a step of the coordinator: it takes the head of its event channel
CoordStep ==
    /\ manager_result = "running"
    /\ rx # <<>>
    /\ (manager_result' # "running" \/ rx' = Tail(rx))

\* how often block (i, k) is named by a Request that is not answered yet:
\* in a NewBlockQueue on its way to a session, in a session's to_send, or
\* written to a remote peer
NamesBlock(r, i, k) == r.kind = "Request" /\ r.index = i /\ r.begin = k * BLOCK_MAX

OutstandingAt(p, i, k) ==
    Count(to_send[p], LAMBDA r : NamesBlock(r, i, k))
    + Count(wire[p], LAMBDA r : NamesBlock(r, i, k))
    + SeqSum([n \in DOMAIN inbox[p] |->
                 Count(inbox[p][n].reqs, LAMBDA r : NamesBlock(r, i, k))])

Outstanding(i, k) == SeqSum([p \in PeerIds |-> OutstandingAt(p, i, k)])

\* C1: every block (piece i, block k) is named in at most one outstanding
\* Request at a time, across all peers.
C1_AtMostOneOutstandingRequest ==
    \A i \in Pieces : \A k \in 0 .. (BlocksPerPiece - 1) : Outstanding(i, k) <= 1

\* C2: for every piece i whose in-memory bitfield bit is set, the data file
\* holds the verified bytes of piece i at offset i * piece_length.
C2_FileHoldsPieceAtItsOffset ==
    \A i \in Pieces :
        have[i] => \E c \in file : /\ c.off = i * piece_length
                                    /\ c.piece = i
                                    /\ \A k \in DOMAIN c.buf : c.buf[k] = "good"

\* C3: FinishedPiece(i) is broadcast only for a piece that was committed:
\* whenever a session holds FinishedPiece(i), bitfield[i] is true.
C3_FinishedPieceOnlyForCommitted ==
    \A p \in PeerIds : \A n \in DOMAIN inbox[p] :
        inbox[p][n].type = "FinishedPiece" => have[inbox[p][n].index]

\* the GotBlock at the head of the event channel completes a piece whose
\* SHA-1 does not match
HashMismatchPending ==
    /\ CoordReady("GotBlock")
    /\ torrent_state = "Downloading"
    /\ LET m == Head(rx)
           queue_i == Position(download_queue, LAMBDA st : st.piece_i = m.index)
       IN  /\ queue_i # 0
           /\ ~update_state_panics(download_queue[queue_i], m.begin, m.length)
           /\ LET upd == update_piece_state(download_queue, m.index, m.begin, m.data)
              IN  upd.done /\ ~check_hash(upd.piece)

\* C4: when the last missing block of a piece arrives and the SHA-1 does not
\* match, the PieceState stays in the queue with every block None, the
\* bitfield and the file are unchanged and the coordinator keeps running.
C4_MismatchResetsInPlace ==
    [][ (HashMismatchPending /\ CoordStep) =>
          /\ \E n \in DOMAIN download_queue' :
                /\ download_queue'[n].piece_i = Head(rx).index
                /\ \A k \in DOMAIN download_queue'[n].blocks :
                      is_none(download_queue'[n].blocks[k])
          /\ have' = have
          /\ file' = file
          /\ manager_result' = "running" ]_vars

\* C8: a send or broadcast that fails for a terminated peer does not stop
\* the coordinator: while another peer's session runs, the coordinator has
\* not returned with the SendError of a closed control channel.
C8_FailedSendDoesNotStopCoordinator ==
    (\E q \in PeerIds : sess[q] = "running") => manager_result # "SendError"

\* blocks were handed out and are not answered yet
BatchInFlight ==
    \E n \in DOMAIN download_queue : \E k \in DOMAIN download_queue[n].blocks :
        download_queue[n].blocks[k] = "InProcess"

\* C7: when a session ends before its batch is answered, the blocks go to
\* another registered peer that has the piece and the download completes;
\* so while the download is unfinished and another seeder's session runs,
\* the coordinator is still there to hand the blocks out.
C7_DisconnectMidBatchStillCompletes ==
    ( /\ abandoned # {}
      /\ \E q \in PeerIds : sess[q] = "running" /\ has[q] = Seeder
      /\ BatchInFlight
      /\ \E i \in Pieces : ~have[i] )
    => manager_result = "running"

\* C9: every termination of a session is followed by a PeerDisconnected
\* event to the coordinator, on which the coordinator removes the peer: for a
\* terminated session the event waits in the coordinator's channel, or the
\* running coordinator has removed the peer.
C9_TerminationReachesCoordinator ==
    \A p \in PeerIds :
        sess[p] = "closed" =>
            \/ \E n \in DOMAIN rx : rx[n] = Ev(p, "PeerDisconnected")
            \/ manager_result = "running" /\ p \notin peers

StateRank(ts) ==
    CASE ts = "WaitingForMetadata" -> 0
      [] ts = "Downloading" -> 1
      [] ts = "Seeding" -> 2

\* C10: TorrentState only moves WaitingForMetadata -> Downloading -> Seeding:
\* every step keeps the state or moves it to the next one.
C10_TorrentStateOneWay ==
    [][ \/ torrent_state' = torrent_state
        \/ StateRank(torrent_state') = StateRank(torrent_state) + 1 ]_vars

\* the metadata arrived and the coordinator moved on to Downloading
C10_LeftWaitingForMetadata ==
    started_as = "WaitingForMetadata" /\ torrent_state = "Downloading"

\* every bit is set, in memory and in the database, and the state is Seeding
Completed ==
    /\ \A i \in Pieces : have[i] /\ db_bitfield[i]
    /\ torrent_state = "Seeding"

\* every piece the data file holds has the bytes of its SHA-1
FileVerified == \A c \in file : \A k \in DOMAIN c.buf : c.buf[k] = "good"

ChannelsHaveRoom ==
    /\ Len(rx) < limits.rx
    /\ \A p \in PeerIds : Len(inbox[p]) < limits.inbox
    /\ Len(download_queue) < limits.queue

\* ---- properties of the piece selector ----------------------------------
\* the known peers whose recorded bitfield has piece i
PeersHaving(i) ==
    {p \in DOMAIN selector.peer_bitfields :
        i < Len(selector.peer_bitfields[p]) /\ selector.peer_bitfields[p][i + 1]}

\* C11: after any sequence of add_peer, add_bitfield, update_have and
\* remove_peer, the rarity counter of every piece is the number of known
\* peers whose recorded bitfield has the piece while we lack it.
C11_RarityCountsPeers ==
    \A i \in SelPieceIds :
        selector.piece_rarity[i] =
            IF selector.have[i] THEN 0 ELSE Cardinality(PeersHaving(i))

\* the rank of piece i in the heap's order by its current rarity
CurrentRank(i) == <<selector.piece_rarity[i], i>>

\* the swarm of the rarity scenario has announced itself, each peer once,
\* and peer p has then made the first call of select
RarityScenarioSelected(p) ==
    /\ sel_out.op = "select" /\ sel_out.peer = p
    /\ sel_out.calls = 2 * Cardinality(DOMAIN selector.peer_bitfields) + 1
    /\ DOMAIN selector.peer_bitfields = {1, 2, 3}
    /\ \A q \in {1, 2, 3} : selector.peer_bitfields[q] = RemoteBitfield(q)
    /\ \A i \in SelPieceIds : ~selector.have[i]

\* C12: a call of select returns pieces in ascending (current rarity, piece
\* index) order and only pieces that a known peer has; in the swarm
\* [1,1,1,0], [1,1,0,0], [0,1,1,0] the peer that has pieces 0, 1 and 2 is
\* given piece 0, then piece 2, then piece 1, and nobody is given piece 3.
C12_RarestFirstOrder ==
    LET queue == sel_out.ret.queue
    IN  /\ \A j, k \in DOMAIN queue :
               j < k => HeapLess(CurrentRank(queue[j]), CurrentRank(queue[k]))
        /\ \A k \in DOMAIN queue : PeersHaving(queue[k]) # {}
        /\ RarityScenarioSelected(1) => queue = <<0, 2, 1>>
        /\ \A p \in {1, 2, 3} :
               RarityScenarioSelected(p) => \A k \in DOMAIN queue : queue[k] # 3

C12_ScenarioYieldsZeroTwoOne ==
    RarityScenarioSelected(1) /\ sel_out.ret.queue = <<0, 2, 1>>

\* C13: over any sequence of calls of select by any peers, no piece index is
\* returned a second time (the selector has no operation that commits a
\* piece, so none lies in between).
C13_NoPieceSelectedTwice == ~sel_out.repeated

\* a second call of select has returned pieces after an earlier one did
C13_SelectedAgain ==
    /\ sel_out.op = "select"
    /\ sel_out.ret.queue # <<>>
    /\ \E i \in sel_out.yielded :
          \A k \in DOMAIN sel_out.ret.queue : sel_out.ret.queue[k] # i

\* ---- properties of the download queue -----------------------------------
\* the entries of the download queue for piece i
QueueEntries(i) == {k \in DOMAIN download_queue : download_queue[k].piece_i = i}

\* C14: piece i has a PieceState in the download queue if and only if
\* pieces_in_flight[i] is true.
C14_InFlightIffQueued ==
    \A i \in Pieces : QueueEntries(i) # {} <=> selector.pieces_in_flight[i]

\* C15: the download queue holds at most one PieceState per piece index.
C15_OnePieceStatePerPiece ==
    \A i \in Pieces : Cardinality(QueueEntries(i)) <= 1

\* C16: the download queue holds at most MAX_PIECES_IN_PARALLEL PieceStates.
C16_QueueBounded == Len(download_queue) <= MAX_PIECES_IN_PARALLEL

\* ---- properties of the block accounting --------------------------------
\* the bytes of the last piece: length = piece_length * (n - 1) + r
LastPieceBytes(info) == info.length - info.piece_length * (info.pieces - 1)

\* the least number of blocks of BLOCK_MAX bytes that hold L bytes
BlocksFor(L) ==
    CHOOSE m \in 0 .. L : m * BLOCK_MAX >= L /\ (m = 0 \/ (m - 1) * BLOCK_MAX < L)

\* C17: the last piece has exactly r bytes and every other piece
\* piece_length bytes; a piece of L bytes has ceil(L / 16384) blocks, the
\* request of block k begins at k * 16384, every block but the last is 16384
\* bytes long, and the lengths requested for a piece sum to L.
C17_BlockAccounting ==
    probe.stage \in {"new", "requested"} =>
        LET st == probe.state
            L == st.size
            reqs == probe.requests
        IN  /\ L = IF st.piece_i = probe.info.pieces - 1
                   THEN LastPieceBytes(probe.info) ELSE probe.info.piece_length
            /\ Len(st.blocks) = BlocksFor(L)
            /\ \A j \in DOMAIN reqs :
                  /\ reqs[j].index = st.piece_i
                  /\ reqs[j].begin = (j - 1) * 16384
                  /\ j < Len(st.blocks) => reqs[j].length = 16384
                  /\ reqs[j].length \in 1 .. 16384
            /\ ~NeedsBlocks(st) =>
                  /\ Len(reqs) = Len(st.blocks)
                  /\ SeqSum([j \in DOMAIN reqs |-> reqs[j].length]) = L

\* every block of a last piece that is no multiple of the block size has
\* been requested
C17_ShortLastBlockRequested ==
    /\ probe.stage = "requested"
    /\ ~NeedsBlocks(probe.state)
    /\ probe.state.piece_i = probe.info.pieces - 1
    /\ probe.info.pieces > 1
    /\ Len(probe.state.blocks) > 1
    /\ probe.state.size % BLOCK_MAX # 0
    /\ probe.state.size < probe.info.piece_length

\* ---- properties of the upload path --------------------------------------
\* the coordinator takes a NeedBlock of a registered peer whose session is
\* running off its channel while it holds a bitfield
NeedBlockStep ==
    /\ CoordStep
    /\ Head(rx).type = "NeedBlock"
    /\ torrent_state = "Downloading"
    /\ Head(rx).peer_id \in peers
    /\ ReceiverAlive(Head(rx).peer_id)

\* C18: a NeedBlock(r) is answered with Block(Some(data)) iff have[r.index]
\* is set and the read succeeds, with Block(None) for a piece we do not own,
\* an index out of range or a failed read, and the coordinator keeps running.
C18_NeedBlockAnswered ==
    [][NeedBlockStep =>
          LET r == Head(rx)
              owned == r.index \in Pieces /\ have[r.index]
              answer == IF owned /\ get_block(r.index, r.begin, r.length) = "Some"
                        THEN "Block" ELSE "BlockNone"
          IN  /\ manager_result' = "running"
              /\ inbox'[r.peer_id] =
                    Append(inbox[r.peer_id], [ResMsg("Block", r.index, <<>>, <<>>)
                                                 EXCEPT !.type = answer])]_vars

\* ---- properties of a restart --------------------------------------------
\* a NewBlockQueue with requests is on its way to a session
BatchIssued ==
    \E p \in PeerIds : \E k \in DOMAIN inbox[p] :
        inbox[p][k].type = "NewBlockQueue" /\ inbox[p][k].reqs # <<>>

\* C19: when the persisted entry has every bit set at start-up, the
\* coordinator is in Seeding and running, and no request batch is issued.
C19_FinishedEntrySeeds ==
    started_as = "Finished" =>
        /\ torrent_state = "Seeding"
        /\ manager_result = "running"
        /\ ~BatchIssued

\* ---- properties of the magnet bootstrap ---------------------------------
\* a connected peer has advertised metadata_size in its extension handshake
MetadataAdvertised ==
    \E p \in PeerIds : sess[p] = "running" /\ ext_known[p]

\* the remote peer has sent something it was not asked for
UnaskedData ==
    \E p \in PeerIds : remote_msgs[p] > 0

\* C20: starting in WaitingForMetadata with a peer that advertises
\* metadata_size and serves the metadata blocks it is asked for (and sends
\* nothing else), the coordinator eventually is in Downloading with an
\* all-false bitfield.
C20_MagnetBootstraps ==
    MetadataAdvertised ~>
        ((torrent_state = "Downloading" /\ have = NoBitfield) \/ UnaskedData)

\* ---- properties of the wire codec ---------------------------------------
\* v followed by n entries false
PaddedWith(v, n) == v \o [k \in 1 .. n |-> FALSE]

\* the decoded payload is the encoded one; bitfields compare modulo the
\* trailing zero padding
SamePayload(sent, got) ==
    IF sent.kind = "Bitfield"
    THEN /\ got.kind = "Bitfield"
         /\ \E n \in 0 .. 7 :
               got.payload.pieces_available
                   = PaddedWith(sent.payload.pieces_available, n)
    ELSE got = sent

\* C21: decoding the bytes that the framer produced for a message yields the
\* message and consumes exactly the bytes written.
C21_EncodeDecodeRoundTrip ==
    codec.stage = "decoded" =>
        /\ codec.ret.kind = "Some"
        /\ SamePayload(codec.item.payload, codec.ret.item.payload)
        \* the bytes left in the buffer: none of those written
        /\ Len(codec.src) = 0

\* C22: to_be_bytes followed by from_be_bytes yields 8*ceil(npieces/8)
\* entries, the first npieces of which are the input and the others false;
\* entry 0 is the most significant bit of byte 0.
C22_BitfieldRoundTrip ==
    codec.stage = "payload" =>
        LET input == codec.item.payload.payload.pieces_available
            output == codec.ret.item.payload.payload.pieces_available
            npieces == Len(input)
        IN  /\ Len(output) = 8 * ((npieces + 7) \div 8)
            /\ \A k \in 1 .. npieces : output[k] = input[k]
            /\ \A k \in (npieces + 1) .. Len(output) : ~output[k]
            /\ npieces > 0 => (input[1] <=> codec.src[1] >= 128)

\* a bitfield that does not fill its last byte and has its last entry set
C22_PaddedBitfieldDecoded ==
    /\ codec.stage = "payload"
    /\ Len(codec.item.payload.payload.pieces_available) = 9
    /\ codec.item.payload.payload.pieces_available[9]
    /\ codec.item.payload.payload.pieces_available[1]
    /\ Len(codec.ret.item.payload.payload.pieces_available) = 16

\* s is an initial segment of t
IsPrefix(s, t) == Len(s) <= Len(t) /\ s = SubSeq(t, 1, Len(s))

\* C23: a frame with an unknown message id neither fails nor ends the
\* session, the messages delivered are those of the known frames in their
\* order, and every message the remote peer has written is eventually
\* delivered, also when it follows a frame with an unknown id.
C23_UnknownIdDropped ==
    /\ [](codec.stage # "failed" /\ IsPrefix(codec.delivered, codec.fed))
    /\ \A n \in 1 .. MaxFrames :
          (Len(codec.fed) >= n) ~> (Len(codec.delivered) >= n)

\* ---- properties of the ut_metadata exchange ------------------------------
\* the message handled last is block k of the info dictionary, served as
\* the protocol says (total_size is the size of the info dictionary)
ServedIntact ==
    \E k \in 0 .. (MaxMetaBlocks - 1) :
        /\ k * METADATA_BLOCK_SIZE < ext.info_size
        /\ ext.msg = ServedBlock(ext.info_size, k, "good")

\* C24: of a Data message for block k the coordinator is handed exactly the
\* raw bytes that follow the dictionary, for every block of an info
\* dictionary of any size, and it copies them to block k and marks it Finished.
C24_RawBlockHandedOver ==
    (ext.stage \in {"dropped", "handled", "received", "panic"} /\ ServedIntact) =>
        /\ ext.action.kind = "ReceivedMetadataPiece"
        /\ ext.action.piece_index = ext.msg.piece_index
        /\ ext.action.offset = header_len(ext.msg)
        /\ ext.action.len = ext.msg.raw_len
        /\ ext.stage # "panic"
        /\ ext.stage = "received" =>
              /\ ext.before.queue[ext.msg.piece_index + 1] = "Finished"
              /\ meta_bytes.blocks[ext.msg.piece_index + 1] = "good"

HoldsInfoDictionary(bytes) ==
    /\ bytes.len = ext.info_size
    /\ \A k \in DOMAIN bytes.blocks : bytes.blocks[k] = "good"

Initialised(len) ==
    /\ meta_queue = [k \in 1 .. div_ceil(len, METADATA_BLOCK_SIZE) |-> "None"]
    /\ meta_bytes.len = len
    /\ meta_bytes.blocks = [k \in 1 .. div_ceil(len, METADATA_BLOCK_SIZE) |-> "zero"]

EngineUnchanged == meta_queue = ext.before.queue /\ meta_bytes = ext.before.bytes

\* C27 as stated: the first call of set_len initialises the engine, every
\* later call leaves block states and buffer unchanged.
C27_SetLenOnlyFirstCall ==
    ext.op = "set_len" =>
        IF ext.set_len_calls = 1 THEN Initialised(ext.ret) ELSE EngineUnchanged

\* C27 amended: set_len initialises the engine when it has no block states
\* (never initialised, or initialised with length 0), and leaves block states
\* and buffer unchanged when it has.
C27_SetLenOnlyWhenEmpty ==
    ext.op = "set_len" =>
        IF ext.before.queue = <<>> THEN Initialised(ext.ret) ELSE EngineUnchanged

\* a later set_len with another length on an engine that has a block Finished
C27_SecondLengthIgnored ==
    /\ ext.op = "set_len"
    /\ ext.set_len_calls = 2
    /\ ext.ret # meta_bytes.len
    /\ \E k \in DOMAIN meta_queue : meta_queue[k] = "Finished"

\* ---- the commit of a piece on a failing storage --------------------------
\* the coordinator takes the event at the head of its channel
CoordinatorTakes(type) ==
    /\ CoordReady(type)
    /\ (rx' = Tail(rx) \/ manager_result' # "running")

\* the GotBlock at the head of the channel completes a piece whose hashes match
CompletesVerifiedPiece ==
    /\ torrent_state = "Downloading"
    /\ LET m == Head(rx)
           queue_i == Position(download_queue, LAMBDA st : st.piece_i = m.index)
       IN  /\ queue_i # 0
           /\ ~update_state_panics(download_queue[queue_i], m.begin, m.length)
           /\ handle_piece_commits(
                  update_piece_state(download_queue, m.index, m.begin, m.data))

\* the entries of the download queue for a piece
Queued(q, index) == Count(q, LAMBDA st : st.piece_i = index)
Written(f, index) == \E c \in f : c.piece = index

\* C28: when a GotBlock completes a piece whose hashes match, the piece
\* leaves the download queue and FinishedPiece is sent only if the write to
\* the data file and the update of the persisted bitfield both succeeded;
\* if one of them fails the piece is still in the queue and nothing is sent
C28_RemovedOnlyAfterPersisted ==
    [][(CoordinatorTakes("GotBlock") /\ CompletesVerifiedPiece) =>
         LET i == Head(rx).index
         IN  (Queued(download_queue', i) < Queued(download_queue, i) \/ inbox' # inbox)
               => (Written(file', i) /\ db_bitfield'[i])]_vars

AnsweredEvents == {"NeedBlockQueue", "NeedBlock", "WhatDoWeHave", "NeedMetadataPiece"}

\* C30: an event that is answered to its sender and whose peer_id is not in
\* the registry is ignored: the coordinator takes it off the channel, changes
\* nothing else, sends nothing and goes on running
C30_UnknownPeerIgnored ==
    [][(\E type \in AnsweredEvents : CoordinatorTakes(type)) /\ Head(rx).peer_id \notin peers
         => /\ manager_result' = "running"
            /\ rx' = Tail(rx)
            /\ UNCHANGED <<torrent_state, peers, has, piece_vars, meta_vars, inbox>>]_vars

\* ---- the end of the download ----------------------------------------------
\* the GotBlock at the head of the channel is taken and its commit completes
\* the bitfield
CompletesBitfield ==
    /\ CoordinatorTakes("GotBlock")
    /\ torrent_state = "Downloading"
    /\ ~is_finished(have)
    /\ is_finished(have')

\* C31: when the commit of piece i completes the bitfield, every registered
\* peer (the receivers of all of them alive) is sent FinishedPiece(i) and then
\* FinishedFile, in that order, and the coordinator keeps running
C31_FinishedPieceThenFinishedFile ==
    [][(CompletesBitfield /\ \A p \in peers : ReceiverAlive(p)) =>
          /\ manager_result' = "running"
          /\ \A p \in peers :
                inbox'[p] = inbox[p] \o <<ResMsg("FinishedPiece", Head(rx).index, <<>>, <<>>),
                                          Res("FinishedFile")>>]_vars

\* C32: in Seeding a NeedBlock of a registered peer, its session open, for a
\* piece we own is answered with Block(Some(data))
C32_SeedingAnswersNeedBlock ==
    [][(/\ CoordinatorTakes("NeedBlock")
        /\ torrent_state = "Seeding"
        /\ Head(rx).peer_id \in peers
        /\ ReceiverAlive(Head(rx).peer_id)
        /\ Head(rx).index \in Pieces
        /\ have[Head(rx).index]) =>
          /\ manager_result' = "running"
          /\ inbox'[Head(rx).peer_id] =
                Append(inbox[Head(rx).peer_id],
                       ResMsg("Block", Head(rx).index, <<>>, <<>>))]_vars

\* ---- StartDownload ---------------------------------------------------------
StartDownloads(ib) == Count(ib, LAMBDA m : m.type = "StartDownload")

\* the peer registers while the torrent is Downloading
RegistersDownloading(p) ==
    /\ CoordinatorTakes("NewConnection")
    /\ Head(rx).peer_id = p
    /\ torrent_state = "Downloading"

\* the metadata is completed while the peer is registered
MetadataCompletes(p) ==
    /\ torrent_state = "WaitingForMetadata"
    /\ torrent_state' = "Downloading"
    /\ p \in peers

\* C33: a peer whose session is open is sent one StartDownload in the step
\* in which it registers in Downloading, one in the step in which the
\* metadata is completed while it is registered, and in no other step
C33_StartDownloadOnce ==
    [][\A p \in PeerIds :
          IF (RegistersDownloading(p) \/ MetadataCompletes(p)) /\ ReceiverAlive(p)
          THEN StartDownloads(inbox'[p]) = StartDownloads(inbox[p]) + 1
          ELSE StartDownloads(inbox'[p]) <= StartDownloads(inbox[p])]_vars

\* ---- WeHave ------------------------------------------------------------------
SentBitfield == \E k \in DOMAIN told.written : told.written[k] = "Bitfield"

\* C34: after WeHave(bf) the session is not interested when bf is empty or
\* full, and otherwise is interested and has sent BITFIELD to the remote peer
C34_WeHaveInterest ==
    told.peer # 0 =>
        IF bf_is_empty(told.bf) \/ bf_is_finished(told.bf)
        THEN ~am_interested[told.peer]
        ELSE am_interested[told.peer] /\ SentBitfield

\* C34 as the code has it: after WeHave(bf) the session is not interested and
\* has sent no BITFIELD when bf is full; otherwise it is interested, and has
\* sent BITFIELD iff bf is not empty
C34_InterestedUnlessFinished ==
    told.peer # 0 =>
        IF bf_is_finished(told.bf)
        THEN ~am_interested[told.peer] /\ ~SentBitfield
        ELSE am_interested[told.peer] /\ (SentBitfield <=> ~bf_is_empty(told.bf))

\* a session was told that we have nothing and is interested
C34_InterestedInEverything ==
    /\ told.peer # 0
    /\ bf_is_empty(told.bf)
    /\ am_interested[told.peer]
    /\ ~SentBitfield

\* ---- the request pipeline of a session ---------------------------------------
\* the step appends events of session p to the coordinator's channel
Emits(p) == Len(rx') > Len(rx) /\ rx'[Len(rx')].peer_id = p

\* the last event the step appends is a NeedBlockQueue of p
EmitsNeedBlockQueue(p) == Emits(p) /\ rx'[Len(rx')].type = "NeedBlockQueue"

\* the arm of the step decremented have_sent: a Piece or a metadata block
ArmDecrements(p) ==
    /\ Emits(p)
    /\ rx'[Len(rx) + 1].type \in {"GotBlock", "ReceivedMetadataPiece"}

\* the step writes queued messages to the remote peer: to_send is drained
\* of what it held or of what the arm has just put into it
WritesRequests(p) ==
    /\ sess'[p] = "running"
    /\ to_send'[p] = <<>>
    /\ (to_send[p] # <<>> \/ Len(wire'[p]) > Len(wire[p]))

\* have_sent == 0, am_interested and not peer_choking at the end of the arm
FlushCondition(p) ==
    /\ (IF ArmDecrements(p) THEN have_sent[p] - 1 ELSE have_sent[p]) = 0
    /\ am_interested'[p]
    /\ ~peer_choking'[p]

\* the arm of the step took a StartDownload off the session's channel
TakesStartDownload(p) ==
    /\ inbox[p] # <<>>
    /\ Head(inbox[p]).type = "StartDownload"
    /\ inbox'[p] = Tail(inbox[p])

\* C35: a session writes queued requests, and emits NeedBlockQueue, only in
\* an iteration that ends with have_sent == 0, am_interested and not
\* peer_choking
C35_RequestsOnlyWhenUnchoked ==
    [][\A p \in PeerIds :
          (WritesRequests(p) \/ EmitsNeedBlockQueue(p)) => FlushCondition(p)]_vars

\* C35 as the code has it: requests are written only in such an iteration;
\* NeedBlockQueue is emitted only in such an iteration or by the
\* StartDownload arm
C35_RequestsOnlyInFlush ==
    [][\A p \in PeerIds :
          /\ WritesRequests(p) => FlushCondition(p)
          /\ EmitsNeedBlockQueue(p) => (FlushCondition(p) \/ TakesStartDownload(p))]_vars

\* requests of a session are on the wire
C35_RequestsWritten ==
    \E p \in PeerIds :
        /\ sess[p] = "running"
        /\ \E n \in DOMAIN wire[p] : wire[p][n].kind = "Request"
        /\ have_sent[p] = Len(wire[p])


\* ---- the bounded channels ------------------------------------------------
\* C36: in no reachable state does the coordinator wait for a slot of the
\* channel of a session that itself waits for a slot of the coordinator's
\* channel.
C36_NoCyclicWait ==
    \A p \in PeerIds : ~(ManagerWaitsFor(p) /\ sess[p] = "running" /\ SessionWaits(p))


\* ---- the size of a selection ---------------------------------------------
\* C37: a select called with count returns at most count piece indices.
C37_AtMostCount ==
    sel_out.op = "select" => Len(sel_out.ret.queue) <= sel_out.count


\* ---- the counter of requests in flight -----------------------------------
\* C38: the in-flight counter of a running session is the number of requests
\* it has written that no Piece and no metadata Data message has answered,
\* and it is never below zero.
C38_CounterIsUnanswered ==
    \A p \in PeerIds :
        sess[p] = "running" => have_sent[p] >= 0 /\ have_sent[p] = Len(wire[p])


\* ---- the answer to an empty batch ----------------------------------------
\* the session of p takes a NewBlockQueue without requests off its channel
TakesEmptyBatch(p) ==
    /\ inbox[p] # <<>>
    /\ Head(inbox[p]).type = "NewBlockQueue"
    /\ Head(inbox[p]).reqs = <<>>
    /\ inbox'[p] = Tail(inbox[p])
    /\ sess'[p] = "running"

\* C39: the loop iteration in which a session takes an empty NewBlockQueue
\* emits no NeedBlockQueue.
C39_EmptyBatchEndsExchange ==
    [][\A p \in PeerIds : TakesEmptyBatch(p) => ~EmitsNeedBlockQueue(p)]_vars


\* ---- entries a select rejects ----------------------------------------------
\* the pieces a select for peer p may return: we lack them, they are not in
\* flight and the recorded bitfield of p has them
Selectable(p) ==
    {i \in SelPieceIds : /\ ~selector.have[i]
                         /\ ~selector.pieces_in_flight[i]
                         /\ p \in PeersHaving(i)}

\* C40: the entries that the selects made for other peers rejected are not
\* lost: a select made for a peer that has a piece we lack and that is not in
\* flight does not come back empty.
C40_RejectedEntryNotLost ==
    (sel_out.op = "select" /\ sel_out.ret.kind = "None")
        => Selectable(sel_out.peer) = {}

====
